---- MODULE Spec2Model ----
(***************************************************************************)
(* A model of four parts of the revlog storage code:                       *)
(*   - the in-place upgrade of a repository (mercurial/upgrade.py,         *)
(*     mercurial/upgrade_utils/engine.py),                                 *)
(*   - the revlog docket (mercurial/revlogutils/docket.py),                *)
(*   - the pure-Python revlog index (mercurial/pure/parsers.py),           *)
(*   - the registry of flag processors (revlogutils/flagutil.py).          *)
(* Each part has its own variables and its own specifications: UpgradeSpec *)
(* for an upgrade from the locks on, ValidateSpec for one from the call    *)
(* of upgraderepo on (ValidateLiveSpec when it runs to its end),           *)
(* FilterSpec for one entry of the store directory, ClassifySpec for one   *)
(* turn of the copying loop; DocketSpec for a docket, HeaderSpec for the   *)
(* header of a docket with ends of any size; IndexSpec for an index,       *)
(* Index2Spec for a v2 index, CodecSpec for the format of one entry,       *)
(* ScanSpec for the scan of an inline index; FlagSpec for the registry of  *)
(* flag processors.  The variables of                                      *)
(* the other parts stay at their idle values.                              *)
(***************************************************************************)
EXTENDS Integers, Sequences, FiniteSets, TLC

VARIABLES
    \* ---- upgrade ----
    pc,         \* position of upgraderepo / engine.upgrade
    failedAt,   \* the step that raised, "none" while nothing has
    locks,      \* the locks held, among src.wlock src.lock dst.wlock dst.lock
    store,      \* <source>/store: a directory, or NoDir
    requires,   \* <source>/requires: a set of requirement tokens
    tmp,        \* the temporary repository upgrade.XXX (tmppath)
    bak,        \* the backup directory upgradebackup.XXX (backuppath)
    orig,       \* the source's store and requires before the upgrade
    op,         \* upgrade_op: actions and revlogs_to_process
    todo,       \* alldatafiles still to be migrated by _clonerevlogs
    trace,      \* the modifications of the source made so far, in order
    \* ---- docket ----
    docket,     \* the RevlogDocket object of the writing process
    disk,       \* the docket file: its bytes, when it exists
    backups,    \* the calls of transaction.addbackup made by write()
    result,     \* what the last docket operation returned or raised
    diskpending, \* the file was last replaced by a write(pending=True)
    lastfinal,  \* the official ends recorded by the last write(pending=False)
    lowered,    \* some end in memory went down since the docket was created
    monotone,   \* "broken" once a write(pending=False) that is not stripping
                \* recorded an official end below the one of such a write
                \* just before it; "held" while only ordered pairs were seen
    lastwrite,  \* whether the last docket operation was a write(), with its
                \* pending and stripping arguments, the write() that returned
                \* True just before it if any, and whether the docket
                \* object was replaced by a parsed one since the start
    \* ---- index ----
    index,      \* the index object: _data, _offsets, _lgt, _extra, _nodemap
    last,       \* the last call on the index: its arguments, its outcome
                \* and, for an append or a del, the entries before it
    \* ---- entry format ----
    codec,      \* the entry given to _pack_entry, its format, what was packed and unpacked
    \* ---- inline scan ----
    scan,       \* the byte string given to an inline index, its format, and what the scan returned
    \* ---- docket header ----
    wide,       \* a docket with ends of any size, what _serialize gave for it and what parse_docket read back
    \* ---- upgrade validation ----
    check,      \* the arguments of upgraderepo and what upgrade_actions answers for the repository, with the message of the Abort raised
    \* ---- arguments of _clonerevlogs ----
    cloneargs,  \* the delta reuse mode and the forcedeltabothparents flag upgrade() gives to _clonerevlogs
    \* ---- store entries ----
    dirent,     \* one entry of the store directory, its file type, and whether upgrade() copied it
    \* ---- flag processors ----
    registry,   \* the module global flagprocessors of flagutil, with the last registration call and what it raised
    \* ---- revlog classification ----
    walked,     \* one entry of alldatafiles in the copying loop of _clonerevlogs, the revlog filter, the revlog opened for it and what the loop did with it
    \* ---- v2 index ----
    index2      \* a v2 index (IndexObject2) with the last call of replace_sidedata_info, its arguments, what it raised and the index before it

uvars == <<pc, failedAt, locks, store, requires, tmp, bak, orig, op, todo, trace>>

dvars == <<docket, disk, backups, result, diskpending, lastfinal, lowered, monotone, lastwrite>>

ivars == <<index, last>>

cvars == <<codec>>

svars == <<scan>>

hvars == <<wide>>

vvars == <<check>>

rvars == <<cloneargs>>

fvars == <<dirent>>

gvars == <<registry>>

kvars == <<walked>>

xvars == <<index2>>

vars == <<uvars, dvars, ivars, cvars, svars, hvars, vvars, rvars, fvars, gvars, kvars, xvars>>

\* what the steps of one part leave alone
notU == <<dvars, ivars, cvars, svars, hvars, vvars, rvars, fvars, gvars, kvars, xvars>>

notD == <<uvars, ivars, cvars, svars, hvars, vvars, rvars, fvars, gvars, kvars, xvars>>

notI == <<uvars, dvars, cvars, svars, hvars, vvars, rvars, fvars, gvars, kvars, xvars>>

notC == <<uvars, dvars, ivars, svars, hvars, vvars, rvars, fvars, gvars, kvars, xvars>>

notS == <<uvars, dvars, ivars, cvars, hvars, vvars, rvars, fvars, gvars, kvars, xvars>>

notH == <<uvars, dvars, ivars, cvars, svars, vvars, rvars, fvars, gvars, kvars, xvars>>

notV == <<uvars, dvars, ivars, cvars, svars, hvars, rvars, fvars, gvars, kvars, xvars>>

notR == <<uvars, dvars, ivars, cvars, svars, hvars, vvars, fvars, gvars, kvars, xvars>>

notF == <<uvars, dvars, ivars, cvars, svars, hvars, vvars, rvars, gvars, kvars, xvars>>

\* what the steps of an upgrade that set check or cloneargs leave alone
notUV == <<dvars, ivars, cvars, svars, hvars, rvars, fvars, gvars, kvars, xvars>>

notUR == <<dvars, ivars, cvars, svars, hvars, vvars, fvars, gvars, kvars, xvars>>

notG == <<uvars, dvars, ivars, cvars, svars, hvars, vvars, rvars, fvars, kvars, xvars>>

notK == <<uvars, dvars, ivars, cvars, svars, hvars, vvars, rvars, fvars, gvars, xvars>>

notX == <<uvars, dvars, ivars, cvars, svars, hvars, vvars, rvars, fvars, gvars, kvars>>

(***************************************************************************)
(* Bounds of the model.                                                    *)
(***************************************************************************)
\* the largest number of revisions of a revlog of the source store
MaxRevs == 2

\* the largest index or data end given to a docket
MaxEnd == 1

\* the largest number of undo backups a transaction records for a docket
MaxBackups == 2

\* the largest number of entries of an index file
MaxDisk == 2

\* the largest number of revisions of an index
MaxLen == 3

\* the number of nodes other than nullid
NumNodes == 2

\* the largest number of revisions appended to a v2 index
MaxAppended == 2

\* the largest number of entries of a scanned inline byte string
MaxChunks == 2

\* the largest number of cells between two entries of such a string
MaxPayload == 2

(***************************************************************************)
(* Files and directories.                                                  *)
(***************************************************************************)
IndexFiles == {"00changelog.i", "00manifest.i", "data/f.i"}

DataFiles == {"00changelog.d", "00manifest.d", "data/f.d"}

OtherFiles == {"fncache", "lock", "phaseroots", "undo"}

StoreFiles == IndexFiles \cup DataFiles \cup OtherFiles

\* oldrl.datafile / newrl.datafile: the .d file of an index file
datafile(i) ==
    CASE i = "00changelog.i" -> "00changelog.d"
      [] i = "00manifest.i" -> "00manifest.d"
      [] OTHER -> "data/f.d"

Absent == [exists |-> FALSE, body |-> <<>>]

File(b) == [exists |-> TRUE, body |-> b]

EmptyFiles == [f \in StoreFiles |-> Absent]

NoDir == [id |-> "none", files |-> EmptyFiles]

(***************************************************************************)
(* Revlogs: revision r (from 0) is entry r+1 of the index file.  An entry  *)
(* holds its node, its base revision (itself for a full text) and, in an   *)
(* inline revlog, its payload; the payloads of a split revlog are in the   *)
(* data file.  A payload is a full text or one (start, end, new) patch of  *)
(* the base's text.                                                        *)
(***************************************************************************)
FullText(t) == [full |-> TRUE, start |-> 0, end |-> 0, new |-> t]

Delta(s, e, n) == [full |-> FALSE, start |-> s, end |-> e, new |-> n]

Corrupt == <<-1>>

Min(a, b) == IF a < b THEN a ELSE b

RECURSIVE CommonPrefix(_, _)
CommonPrefix(a, b) ==
    IF a = <<>> \/ b = <<>> \/ Head(a) # Head(b) THEN 0
    ELSE 1 + CommonPrefix(Tail(a), Tail(b))

Reverse(s) == [i \in 1..Len(s) |-> s[Len(s) + 1 - i]]

\* the patch that turns text a into text b
Diff(a, b) ==
    LET p == CommonPrefix(a, b)
        q == Min(CommonPrefix(Reverse(a), Reverse(b)), Min(Len(a), Len(b)) - p)
    IN  Delta(p, Len(a) - q, SubSeq(b, p + 1, Len(b) - q))

\* read step 4: apply a (start, end, new) patch to the rolling buffer
Apply(p, t) ==
    IF t = Corrupt \/ p.end > Len(t) THEN Corrupt
    ELSE SubSeq(t, 1, p.start) \o p.new \o SubSeq(t, p.end + 1, Len(t))

\* the payload of revision r: inline in the entry, or in the data file
payload(idx, dat, r) ==
    LET e == idx.body[r + 1]
    IN  IF e.data # <<>> THEN e.data
        ELSE IF dat.exists /\ r + 1 \in DOMAIN dat.body THEN <<dat.body[r + 1]>>
        ELSE <<>>

\* Revlog.revision(r): rebuild the full text from the delta chain
RECURSIVE revision(_, _, _)
revision(idx, dat, r) ==
    LET e == idx.body[r + 1]
        p == payload(idx, dat, r)
    IN  IF p = <<>> THEN Corrupt
        ELSE IF e.base = r THEN (IF p[1].full THEN p[1].new ELSE Corrupt)
        ELSE IF e.base > r \/ e.base < 0 THEN Corrupt
        ELSE Apply(p[1], revision(idx, dat, e.base))

\* len(rl): a revlog whose index file does not exist is empty
rllen(idx) == IF idx.exists THEN Len(idx.body) ELSE 0

\* Revlog.node(r)
rlnode(idx, r) == idx.body[r + 1].node

\* the revlog of index file i in directory d, as (index file, data file)
rlidx(d, i) == d.files[i]

rldat(d, i) == d.files[datafile(i)]

(***************************************************************************)
(* The source repository before the upgrade.                               *)
(***************************************************************************)
\* a number for each revlog, used to make up its texts and nodes
fid(i) ==
    CASE i = "00changelog.i" -> 0
      [] i = "00manifest.i" -> 1
      [] OTHER -> 2

\* the text of revision r of revlog i in the source
Text(i, r) == [k \in 1..(r + 1) |-> (fid(i) + k * r) % 3]

\* the node of revision r of revlog i in the source
Node(i, r) == 10 * (fid(i) + 1) + r

\* how the source stores revision r: a full text first, then deltas
\* against the previous revision
srcpayload(i, r) ==
    IF r = 0 THEN FullText(Text(i, 0)) ELSE Diff(Text(i, r - 1), Text(i, r))

srcindex(i, n, split) ==
    File([k \in 1..n |->
            [node |-> Node(i, k - 1),
             base |-> IF k = 1 THEN 0 ELSE k - 2,
             data |-> IF split THEN <<>> ELSE <<srcpayload(i, k - 1)>>]])

srcdata(i, n, split) ==
    IF split THEN File([k \in 1..n |-> srcpayload(i, k - 1)]) ELSE Absent

\* a source store: nc changesets and manifests, nf revisions of file f
srcstore(nc, sc, nf, sf) ==
    [id |-> "old",
     files |->
        [f \in StoreFiles |->
            CASE f = "00changelog.i" -> srcindex(f, nc, sc)
              [] f = "00changelog.d" -> srcdata("00changelog.i", nc, sc)
              [] f = "00manifest.i" -> srcindex(f, nc, FALSE)
              [] f = "00manifest.d" -> Absent
              [] f = "data/f.i" -> srcindex(f, nf, sf)
              [] f = "data/f.d" -> srcdata("data/f.i", nf, sf)
              [] f = "fncache" ->
                    File(<<{"data/f.i"} \cup (IF sf THEN {"data/f.d"} ELSE {})>>)
              [] f = "phaseroots" -> File(<<"phases">>)
              [] f = "undo" -> File(<<"undo">>)
              [] OTHER -> Absent]]

\* a split revlog has at least one revision
SourceStores ==
    {srcstore(nc, sc, nf, sf) :
        <<nc, sc, nf, sf>> \in
            {q \in (0..MaxRevs) \X BOOLEAN \X (0..MaxRevs) \X BOOLEAN :
                (q[2] => q[1] > 0) /\ (q[4] => q[3] > 0)}}

SourceRequirements == {"revlogv1", "store", "fncache"}

\* newreqs of upgraderepo
NewRequirements == {"revlogv1", "store", "fncache", "generaldelta"}

UPGRADE_CHANGELOG == "changelog"

UPGRADE_MANIFEST == "manifest"

UPGRADE_FILELOGS == "all-filelogs"

UPGRADE_ALL_REVLOGS == {UPGRADE_CHANGELOG, UPGRADE_MANIFEST, UPGRADE_FILELOGS}

Optimisations ==
    {"re-delta-all", "re-delta-parent", "re-delta-multibase", "re-delta-fulladd"}

(***************************************************************************)
(* engine.py: the helpers of upgrade().                                    *)
(***************************************************************************)
\* a name as the sequence of its characters
endswith(path, suffix) ==
    Len(path) >= Len(suffix)
        /\ SubSeq(path, Len(path) - Len(suffix) + 1, Len(path)) = suffix

startswith(path, prefix) ==
    Len(path) >= Len(prefix) /\ SubSeq(path, 1, Len(prefix)) = prefix

\* the name of a file of the store
pathname(f) ==
    CASE f = "00changelog.i" -> <<"0", "0", "c", "h", "a", "n", "g", "e", "l", "o", "g", ".", "i">>
      [] f = "00changelog.d" -> <<"0", "0", "c", "h", "a", "n", "g", "e", "l", "o", "g", ".", "d">>
      [] f = "00manifest.i" -> <<"0", "0", "m", "a", "n", "i", "f", "e", "s", "t", ".", "i">>
      [] f = "00manifest.d" -> <<"0", "0", "m", "a", "n", "i", "f", "e", "s", "t", ".", "d">>
      [] f = "fncache" -> <<"f", "n", "c", "a", "c", "h", "e">>
      [] f = "lock" -> <<"l", "o", "c", "k">>
      [] f = "phaseroots" -> <<"p", "h", "a", "s", "e", "r", "o", "o", "t", "s">>
      [] f = "undo" -> <<"u", "n", "d", "o">>
      [] f = "data/f.i" -> <<"d", "a", "t", "a", "/", "f", ".", "i">>
      [] f = "data/f.d" -> <<"d", "a", "t", "a", "/", "f", ".", "d">>

\* the class of revlog _revlogfrompath opens for a store path, with the
\* tree of a manifest and the file of a filelog (path[5:-2])
_revlogfrompath(path) ==
    IF path = pathname("00changelog.i")
    THEN [class |-> "changelog", of |-> <<>>]
    ELSE IF endswith(path, pathname("00manifest.i"))
    THEN [class |-> "manifestrevlog",
          of |-> SubSeq(path, 1, Len(path) - Len(pathname("00manifest.i")))]
    ELSE [class |-> "filelog", of |-> SubSeq(path, 6, Len(path) - 2)]

matchrevlog(revlogfilter, entry) ==
    IF endswith(entry, pathname("00changelog.i"))
    THEN UPGRADE_CHANGELOG \in revlogfilter
    ELSE IF endswith(entry, pathname("00manifest.i"))
    THEN UPGRADE_MANIFEST \in revlogfilter
    ELSE UPGRADE_FILELOGS \in revlogfilter

\* the delta reuse mode upgrade() derives from upgrade_op.actions
\* the mode with 're-delta-parent' looked at before 're-delta-all'
deltareuse_parentfirst(actions) ==
    IF "re-delta-parent" \in actions THEN "samerevs"
    ELSE IF "re-delta-all" \in actions THEN "never"
    ELSE IF "re-delta-multibase" \in actions THEN "samerevs"
    ELSE IF "re-delta-fulladd" \in actions THEN "fulladd"
    ELSE "always"

deltareuse(actions) ==
    IF "re-delta-all" \in actions THEN "never"
    ELSE IF "re-delta-parent" \in actions THEN "samerevs"
    ELSE IF "re-delta-multibase" \in actions THEN "samerevs"
    ELSE IF "re-delta-fulladd" \in actions THEN "fulladd"
    ELSE "always"

\* destrepo.svfs.fncache.add(name)
fncacheadd(files, names) ==
    [files EXCEPT !["fncache"] =
        File(<<(IF @.exists THEN @.body[1] ELSE {}) \cup names>>)]

\* _copyrevlog with the data file always taken to be absent
_copyrevlog_nodata(dst, src, i) ==
    [dst EXCEPT !.files = [@ EXCEPT ![i] = src.files[i]]]

\* _copyrevlog: the index file and, when it exists, the data file, as is
_copyrevlog(dst, src, i) ==
    LET d == datafile(i)
        copydata == src.files[d].exists
        copied == [dst.files EXCEPT
                      ![i] = src.files[i],
                      ![d] = IF copydata THEN src.files[d] ELSE @]
    IN  [dst EXCEPT !.files =
            IF i \in {"00changelog.i", "00manifest.i"} THEN copied
            ELSE fncacheadd(copied, {i} \cup (IF copydata THEN {d} ELSE {}))]

\* Revlog.clone: the entry written for revision r under a delta reuse mode
cloneentry(idx, dat, r, mode) ==
    LET text == revision(idx, dat, r)
        reuse == payload(idx, dat, r)
    IN  CASE mode = "fulladd" \/ r = 0 ->
                [node |-> rlnode(idx, r), base |-> r, data |-> <<FullText(text)>>]
          [] mode = "never" ->
                [node |-> rlnode(idx, r), base |-> r - 1,
                 data |-> <<Diff(revision(idx, dat, r - 1), text)>>]
          [] OTHER ->
                [node |-> rlnode(idx, r), base |-> idx.body[r + 1].base,
                 data |-> reuse]

\* oldrl.clone(tr, newrl, deltareuse=mode): every revision, into an inline
\* revlog of the destination
clone(dst, src, i, mode) ==
    LET idx == rlidx(src, i)
        dat == rldat(src, i)
        new == File([k \in 1..rllen(idx) |-> cloneentry(idx, dat, k - 1, mode)])
        written == [dst.files EXCEPT ![i] = new]
    IN  [dst EXCEPT !.files =
            IF i \in {"00changelog.i", "00manifest.i"} THEN written
            ELSE fncacheadd(written, {i})]

\* store.walk(): filelogs, then manifests, then the changelog; the .d
\* entries are skipped by both loops of _clonerevlogs
alldatafiles(d) ==
    SelectSeq(<<"data/f.i", "00manifest.i", "00changelog.i">>,
              LAMBDA i : d.files[i].exists)

\* revcount of _clonerevlogs: the revisions of all revlogs of the store
RECURSIVE revcount(_, _)
revcount(d, files) ==
    IF files = <<>> THEN 0
    ELSE rllen(d.files[Head(files)]) + revcount(d, Tail(files))

\* forcedeltabothparents of _clonerevlogs, as upgrade() gives it
forcedeltabothparents(actions) == "re-delta-multibase" \in actions

NoReuse == [deltareuse |-> "none", forcedeltabothparents |-> FALSE]

\* one turn of the copying loop of _clonerevlogs
migrateone(dst, src, i, upgrade_op) ==
    IF matchrevlog(upgrade_op.revlogs, pathname(i))
    THEN clone(dst, src, i, deltareuse(upgrade_op.actions))
    ELSE _copyrevlog(dst, src, i)

\* readdir(b''): the entries at the top of the store, all regular files
\* but the data directory
toplevel == StoreFiles \ {"data/f.i", "data/f.d"}

\* _filterstorefile with the transaction files recognised by their whole name
_filterstorefile_undoonly(path, mode) ==
    /\ ~\E suffix \in {<<".", "i">>, <<".", "d">>, <<".", "n">>, <<".", "n", "d">>} :
            endswith(path, suffix)
    /\ path # <<"u", "n", "d", "o">>
    /\ mode = "S_IFREG"
    /\ path \notin {<<"l", "o", "c", "k">>, <<"f", "n", "c", "a", "c", "h", "e">>}

\* _filterstorefile(srcrepo, dstrepo, requirements, path, mode, st)
_filterstorefile(path, mode) ==
    /\ ~\E suffix \in {<<".", "i">>, <<".", "d">>, <<".", "n">>, <<".", "n", "d">>} :
            endswith(path, suffix)
    /\ ~startswith(path, <<"u", "n", "d", "o">>)
    /\ mode = "S_IFREG"
    /\ path \notin {<<"l", "o", "c", "k">>, <<"f", "n", "c", "a", "c", "h", "e">>}

\* the loop of upgrade() over the other files of the store
copystorefiles(dst, src) ==
    [dst EXCEPT !.files =
        [f \in StoreFiles |->
            IF f \in toplevel /\ src.files[f].exists
                  /\ _filterstorefile(pathname(f), "S_IFREG")
            THEN src.files[f] ELSE @[f]]]

(***************************************************************************)
(* upgraderepo() and engine.upgrade(), one action per step.  A step that   *)
(* can raise (an I/O error, an interrupt) either takes effect or raises    *)
(* without effect; Fail is the second case.                                *)
(***************************************************************************)
NoTmp == [exists |-> FALSE, store |-> NoDir]

NoBackup == [exists |-> FALSE, hasrequires |-> FALSE, requires |-> {}, store |-> NoDir]

\* the steps inside `with dstrepo.wlock(), dstrepo.lock()`
EngineSteps ==
    {"engine", "clone", "copyfiles", "mkbackup", "copyrequires", "lockout",
     "rename1", "rename2", "finalreq", "unlink"}

\* the steps that can raise
FailPoints == {"wlocked", "locked", "tmp"} \cup EngineSteps

\* lock.release(): the lock file is unlinked if it is still there
unlinklock(d) ==
    IF d.id = "none" THEN d ELSE [d EXCEPT !.files = [@ EXCEPT !["lock"] = Absent]]

\* lock(): the lock file is created
createlock(d) == [d EXCEPT !.files = [@ EXCEPT !["lock"] = File(<<"held">>)]]

\* with repo.wlock(), ...: the lock of the working copy, .hg/wlock
WLock ==
    /\ pc = "start"
    /\ locks' = {"src.wlock"}
    /\ pc' = "wlocked"
    /\ UNCHANGED <<failedAt, store, requires, tmp, bak, orig, op, todo, trace, notU>>

\* with ..., repo.lock(): the lock of the store, .hg/store/lock
Lock ==
    /\ pc = "wlocked"
    /\ locks' = locks \cup {"src.lock"}
    /\ store' = createlock(store)
    /\ pc' = "locked"
    /\ UNCHANGED <<failedAt, requires, tmp, bak, orig, op, todo, trace, notU>>

\* tmppath = pycompat.mkdtemp(prefix=b'upgrade.', dir=repo.path)
MkTmp ==
    /\ pc = "locked"
    /\ tmp' = [exists |-> TRUE, store |-> NoDir]
    /\ pc' = "tmp"
    /\ UNCHANGED <<failedAt, locks, store, requires, bak, orig, op, todo, trace, notU>>

\* dstrepo = hg.repository(repoui, path=tmppath, create=True), and its locks
CreateDst ==
    /\ pc = "tmp"
    /\ tmp' = [tmp EXCEPT !.store = createlock([id |-> "new", files |-> EmptyFiles])]
    /\ locks' = locks \cup {"dst.wlock", "dst.lock"}
    /\ pc' = "engine"
    /\ UNCHANGED <<failedAt, store, requires, bak, orig, op, todo, trace, notU>>

\* upgrade() up to the copying loop: the asserts, the first pass of
\* _clonerevlogs, and its return when the store holds no revision.
\* upgrade.py:336 passes (ui, repo, dstrepo, newreqs, upgradeactions,
\* revlogs=revlogs) where engine.py:386 takes (ui, srcrepo, dstrepo,
\* upgrade_op); the engine is modelled as run on an upgrade_op made of these
\* values, and the TypeError of the call as written is a failure at "engine".
Begin ==
    /\ pc = "engine"
    /\ {"src.wlock", "dst.wlock"} \subseteq locks
    /\ LET all == alldatafiles(store)
       IN  IF revcount(store, all) = 0
           THEN todo' = <<>> /\ pc' = "copyfiles"
           ELSE todo' = all /\ pc' = "clone"
    /\ cloneargs' = [deltareuse |-> deltareuse(op.actions),
                     forcedeltabothparents |-> forcedeltabothparents(op.actions)]
    /\ UNCHANGED <<failedAt, locks, store, requires, tmp, bak, orig, op, trace>>
    /\ UNCHANGED notUR

\* one revlog of the copying loop; after the last one the transaction closes
CloneOne ==
    /\ pc = "clone"
    /\ todo # <<>>
    /\ tmp' = [tmp EXCEPT !.store = migrateone(@, store, Head(todo), op)]
    /\ todo' = Tail(todo)
    /\ pc' = IF Tail(todo) = <<>> THEN "copyfiles" ELSE "clone"
    /\ UNCHANGED <<failedAt, locks, store, requires, bak, orig, op, trace, notU>>

\* the other files of the store
CopyFiles ==
    /\ pc = "copyfiles"
    /\ tmp' = [tmp EXCEPT !.store = copystorefiles(@, store)]
    /\ pc' = "mkbackup"
    /\ UNCHANGED <<failedAt, locks, store, requires, bak, orig, op, todo, trace, notU>>

\* backuppath = pycompat.mkdtemp(prefix=b'upgradebackup.', dir=srcrepo.path)
MkBackup ==
    /\ pc = "mkbackup"
    /\ bak' = [NoBackup EXCEPT !.exists = TRUE]
    /\ pc' = "copyrequires"
    /\ UNCHANGED <<failedAt, locks, store, requires, tmp, orig, op, todo, trace, notU>>

\* the backup of the requires file made by a rename instead of a copy
CopyRequires_rename ==
    /\ pc = "copyrequires"
    /\ bak' = [bak EXCEPT !.hasrequires = TRUE, !.requires = requires]
    /\ requires' = {}
    /\ pc' = "lockout"
    /\ UNCHANGED <<failedAt, locks, store, tmp, orig, op, todo, trace, notU>>

\* util.copyfile(srcrepo.vfs.join(b'requires'), backupvfs.join(b'requires'))
CopyRequires ==
    /\ pc = "copyrequires"
    /\ bak' = [bak EXCEPT !.hasrequires = TRUE, !.requires = requires]
    /\ pc' = "lockout"
    /\ UNCHANGED <<failedAt, locks, store, requires, tmp, orig, op, todo, trace, notU>>

\* the lock-out written without the extra requirement
LockOut_plain ==
    /\ pc = "lockout"
    /\ requires' = requires
    /\ trace' = Append(trace, "lockout")
    /\ pc' = "rename1"
    /\ UNCHANGED <<failedAt, locks, store, tmp, bak, orig, op, todo, notU>>

\* scmutil.writereporequirements(srcrepo, srcrepo.requirements | {...})
LockOut ==
    /\ pc = "lockout"
    /\ requires' = requires \cup {"upgradeinprogress"}
    /\ trace' = Append(trace, "lockout")
    /\ pc' = "rename1"
    /\ UNCHANGED <<failedAt, locks, store, tmp, bak, orig, op, todo, notU>>

\* util.rename(srcrepo.spath, backupvfs.join(b'store'))
Rename1 ==
    /\ pc = "rename1"
    /\ bak' = [bak EXCEPT !.store = store]
    /\ store' = NoDir
    /\ trace' = Append(trace, "rename1")
    /\ pc' = "rename2"
    /\ UNCHANGED <<failedAt, locks, requires, tmp, orig, op, todo, notU>>

\* the new store moved file by file, the revlog files only
Rename2_revlogs ==
    /\ pc = "rename2"
    /\ store = NoDir
    /\ store' = [tmp.store EXCEPT !.files =
                    [f \in StoreFiles |->
                        IF f \in IndexFiles \cup DataFiles THEN @[f] ELSE Absent]]
    /\ tmp' = [tmp EXCEPT !.store = NoDir]
    /\ trace' = Append(trace, "rename2")
    /\ pc' = "finalreq"
    /\ UNCHANGED <<failedAt, locks, requires, bak, orig, op, todo, notU>>

\* util.rename(dstrepo.spath, srcrepo.spath): srcrepo.spath is free again
Rename2 ==
    /\ pc = "rename2"
    /\ store = NoDir
    /\ store' = tmp.store
    /\ tmp' = [tmp EXCEPT !.store = NoDir]
    /\ trace' = Append(trace, "rename2")
    /\ pc' = "finalreq"
    /\ UNCHANGED <<failedAt, locks, requires, bak, orig, op, todo, notU>>

\* scmutil.writereporequirements(srcrepo, upgrade_op.requirements)
FinalReq ==
    /\ pc = "finalreq"
    /\ requires' = NewRequirements
    /\ trace' = Append(trace, "finalreq")
    /\ pc' = "unlink"
    /\ UNCHANGED <<failedAt, locks, store, tmp, bak, orig, op, todo, notU>>

\* backupvfs.unlink(b'store/lock'); return backuppath
Unlink ==
    /\ pc = "unlink"
    /\ bak.store.files["lock"].exists
    /\ bak' = [bak EXCEPT !.store = unlinklock(@)]
    /\ pc' = "returned"
    /\ UNCHANGED <<failedAt, locks, store, requires, tmp, orig, op, todo, trace, notU>>

\* the end of `with dstrepo.wlock(), dstrepo.lock()`, then the removal of
\* the backup when upgraderepo was called with backup=False
Returned ==
    /\ pc = "returned"
    /\ locks' = locks \ {"dst.wlock", "dst.lock"}
    /\ tmp' = [tmp EXCEPT !.store = unlinklock(@)]
    /\ \E backup \in BOOLEAN : bak' = IF backup THEN bak ELSE NoBackup
    /\ pc' = "finally"
    /\ UNCHANGED <<failedAt, store, requires, orig, op, todo, trace, notU>>

\* a step raises (repo.lock() included, once the wlock is held): the
\* exception leaves the engine and the dstrepo locks (if they were taken) and
\* reaches the finally clause (if the try was entered)
Fail ==
    /\ pc \in FailPoints
    /\ failedAt = "none"
    /\ failedAt' = pc
    /\ locks' = locks \ {"dst.wlock", "dst.lock"}
    /\ tmp' = IF pc \in EngineSteps THEN [tmp EXCEPT !.store = unlinklock(@)] ELSE tmp
    /\ pc' = IF pc \in {"wlocked", "locked"} THEN "release" ELSE "finally"
    /\ UNCHANGED <<store, requires, bak, orig, op, todo, trace, notU>>

\* a cleanup that removes the backup directory with the temporary one
Finally_both ==
    /\ pc = "finally"
    /\ tmp' = NoTmp
    /\ bak' = NoBackup
    /\ pc' = "release"
    /\ UNCHANGED <<failedAt, locks, store, requires, orig, op, todo, trace, notU>>

\* a finally clause that leaves the temporary directory where it is
Finally_keep ==
    /\ pc = "finally"
    /\ pc' = "release"
    /\ UNCHANGED <<failedAt, locks, store, requires, tmp, bak, orig, op, todo, trace, notU>>

\* finally: repo.vfs.rmtree(tmppath, forcibly=True)
Finally ==
    /\ pc = "finally"
    /\ tmp' = NoTmp
    /\ pc' = "release"
    /\ UNCHANGED <<failedAt, locks, store, requires, bak, orig, op, todo, trace, notU>>

\* an end of the with statement that gives back the store lock only
Release_store ==
    /\ pc = "release"
    /\ locks' = locks \ {"src.lock"}
    /\ store' = unlinklock(store)
    /\ pc' = "done"
    /\ UNCHANGED <<failedAt, requires, tmp, bak, orig, op, todo, trace, notU>>

\* the end of `with repo.wlock(), repo.lock()`
Release ==
    /\ pc = "release"
    /\ locks' = {}
    /\ store' = unlinklock(store)
    /\ pc' = "done"
    /\ UNCHANGED <<failedAt, requires, tmp, bak, orig, op, todo, trace, notU>>

UpgradeNext ==
    \/ WLock
    \/ Lock
    \/ MkTmp
    \/ CreateDst
    \/ Begin
    \/ CloneOne
    \/ CopyFiles
    \/ MkBackup
    \/ CopyRequires
    \/ LockOut
    \/ Rename1
    \/ Rename2
    \/ FinalReq
    \/ Unlink
    \/ Returned
    \/ Fail
    \/ Finally
    \/ Release


(***************************************************************************)
(* upgraderepo() before the locks: the checks of the requirements and of   *)
(* the optimisations asked for.  upgrade_actions and localrepo are not     *)
(* part of the model: what their functions answer is an input.             *)
(***************************************************************************)
\* legacy_opts_map.get(o, o)
legacy_opts_map(o) ==
    CASE o = "redeltaparent" -> "re-delta-parent"
      [] o = "redeltamultibase" -> "re-delta-multibase"
      [] o = "redeltaall" -> "re-delta-all"
      [] o = "redeltafulladd" -> "re-delta-fulladd"
      [] OTHER -> o

\* the checks with the one of the blocking source requirements left out
validate_unblocked(c, requirements) ==
    LET optimize == {legacy_opts_map(o) : o \in c.optimize}
    IN  IF c.requiredsourcerequirements \ requirements # {}
        THEN "requirement missing"
        ELSE IF (requirements \ c.newreqs) \ c.supportremovedrequirements # {}
        THEN "requirement would be removed"
        ELSE IF (c.newreqs \ requirements) \ c.allowednewrequirements # {}
        THEN "do not support adding requirement"
        ELSE IF c.newreqs \ c.supporteddestrequirements # {}
        THEN "do not support destination requirement"
        ELSE IF optimize \ c.findoptimizations # {}
        THEN "unknown optimization action requested"
        ELSE ""

\* the checks of upgraderepo in their order: the message of the Abort
\* raised, or "" when none is
validate(c, requirements) ==
    LET optimize == {legacy_opts_map(o) : o \in c.optimize}
    IN  IF c.requiredsourcerequirements \ requirements # {}
        THEN "requirement missing"
        ELSE IF c.blocksourcerequirements \cap requirements # {}
        THEN "unsupported source requirement"
        ELSE IF (requirements \ c.newreqs) \ c.supportremovedrequirements # {}
        THEN "requirement would be removed"
        ELSE IF (c.newreqs \ requirements) \ c.allowednewrequirements # {}
        THEN "do not support adding requirement"
        ELSE IF c.newreqs \ c.supporteddestrequirements # {}
        THEN "do not support destination requirement"
        ELSE IF optimize \ c.findoptimizations # {}
        THEN "unknown optimization action requested"
        ELSE ""

\* the calls of upgraderepo(ui, repo, run=True, optimize=...) and the
\* answers of upgrade_actions for the repository
Checks ==
    [optimize : {{}, {"redeltaparent"}, {"re-delta-all", "bogus"}, {"bogus"}},
     requiredsourcerequirements : {{"revlogv1", "store"}, {"revlogv1", "store", "dotencode"}},
     blocksourcerequirements : {{"treemanifest", "shared"}, {"treemanifest", "fncache"}},
     newreqs : {NewRequirements, NewRequirements \ {"fncache"},
                NewRequirements \cup {"exp-sidedata-flag"}},
     supportremovedrequirements : {{"sparserevlog"}},
     allowednewrequirements : {{"generaldelta", "exp-sidedata-flag"}, {"dotencode"}},
     supporteddestrequirements : {NewRequirements \cup {"dotencode"}, SourceRequirements},
     findoptimizations : {Optimisations},
     abort : {""}]

NoCheck ==
    [optimize |-> {}, requiredsourcerequirements |-> {}, blocksourcerequirements |-> {},
     newreqs |-> {}, supportremovedrequirements |-> {}, allowednewrequirements |-> {},
     supporteddestrequirements |-> {}, findoptimizations |-> {}, abort |-> ""]

\* upgraderepo from its first line to `with repo.wlock(), repo.lock()`: an
\* Abort, or the optimisations and the revlogs the engine is given
Validate ==
    /\ pc = "call"
    /\ check' = [check EXCEPT !.abort = validate(check, requires)]
    /\ pc' = IF validate(check, requires) # "" THEN "aborted" ELSE "start"
    /\ op' = IF validate(check, requires) # "" THEN op
             ELSE [actions |-> {legacy_opts_map(o) : o \in check.optimize}
                                   \cap check.findoptimizations,
                   revlogs |-> UPGRADE_ALL_REVLOGS]
    /\ UNCHANGED <<failedAt, locks, store, requires, tmp, bak, orig, todo, trace>>
    /\ UNCHANGED notUV

(***************************************************************************)
(* docket.py: the docket of a revlog.  The file is a sequence of bytes.    *)
(***************************************************************************)
REVLOGV1 == 1

REVLOGV2 == 2

CHANGELOGV2 == 3

\* make_uid(id_size=8)
ID_SIZE == 8

\* the compression header of the default engine, one byte
CompHeader == 120

\* the k-th identifier make_uid returns: ID_SIZE ascii characters; the
\* index file gets the first, the data file the second
make_uid(k) == [i \in 1..ID_SIZE |-> 48 + k]


\* None, for a uuid that is not allocated yet
None == <<-1>>

RECURSIVE Pow(_, _)
Pow(b, n) == IF n = 0 THEN 1 ELSE b * Pow(b, n - 1)

\* struct: an unsigned big-endian field of n bytes; struct.error when the
\* value does not fit
fits(v, n) == 0 <= v /\ (v \div Pow(256, n - 1)) < 256

pack_be(v, n) == [i \in 1..n |-> (v \div Pow(256, n - i)) % 256]

RECURSIVE unpack_be(_)
unpack_be(b) ==
    IF b = <<>> THEN 0 ELSE 256 * unpack_be(SubSeq(b, 1, Len(b) - 1)) + b[Len(b)]

\* S_HEADER = struct.Struct(constants.INDEX_HEADER.format + 'BBLLLLc'):
\* the sizes in bytes of its fields, in order
S_HEADER == <<4, 1, 1, 4, 4, 4, 4, 1>>

RECURSIVE Sum(_)
Sum(q) == IF q = <<>> THEN 0 ELSE Head(q) + Sum(Tail(q))

\* S_HEADER.size
S_HEADER_size == Sum(S_HEADER)

\* S_HEADER.pack(*data)
RECURSIVE S_HEADER_pack(_, _)
S_HEADER_pack(data, sizes) ==
    IF data = <<>> THEN <<>>
    ELSE pack_be(Head(data), Head(sizes)) \o S_HEADER_pack(Tail(data), Tail(sizes))

\* S_HEADER.unpack(bytes)
RECURSIVE S_HEADER_unpack(_, _)
S_HEADER_unpack(bytes, sizes) ==
    IF sizes = <<>> THEN <<>>
    ELSE <<unpack_be(SubSeq(bytes, 1, Head(sizes)))>>
            \o S_HEADER_unpack(SubSeq(bytes, Head(sizes) + 1, Len(bytes)), Tail(sizes))

NoDocket ==
    [none |-> TRUE, _version_header |-> 0, _read_only |-> FALSE, _dirty |-> FALSE,
     _index_uuid |-> None, _data_uuid |-> None,
     _initial_index_end |-> 0, _pending_index_end |-> 0,
     _initial_data_end |-> 0, _pending_data_end |-> 0,
     _index_end |-> 0, _data_end |-> 0, default_compression_header |-> 0]

\* RevlogDocket.__init__; the two asserts are checked by the callers below
RevlogDocket(use_pending, version_header, index_uuid, data_uuid, index_end, pending_index_end, data_end, pending_data_end, comp) ==
    [none |-> FALSE, _version_header |-> version_header,
     _read_only |-> use_pending, _dirty |-> FALSE,
     _index_uuid |-> index_uuid, _data_uuid |-> data_uuid,
     _initial_index_end |-> index_end, _pending_index_end |-> pending_index_end,
     _initial_data_end |-> data_end, _pending_data_end |-> pending_data_end,
     _index_end |-> IF use_pending THEN pending_index_end ELSE index_end,
     _data_end |-> IF use_pending THEN pending_data_end ELSE data_end,
     default_compression_header |-> comp]

\* default_docket(revlog, version_header)
default_docket(version_header) ==
    IF version_header % 65536 \notin {REVLOGV2, CHANGELOGV2} THEN NoDocket
    ELSE [RevlogDocket(FALSE, version_header, None, None, 0, 0, 0, 0, CompHeader)
            EXCEPT !._dirty = TRUE]

\* a variant that records the index end loaded at construction in every mode
official_index_end_initial(d, pending) == d._initial_index_end

\* the official ends _serialize records
official_index_end(d, pending) ==
    IF pending THEN d._initial_index_end ELSE d._index_end

official_data_end(d, pending) ==
    IF pending THEN d._initial_data_end ELSE d._data_end

\* RevlogDocket._serialize(pending): the bytes, or the exception raised
_serialize(d, pending) ==
    LET data == <<d._version_header, Len(d._index_uuid), Len(d._data_uuid),
                  official_index_end(d, pending), d._index_end,
                  official_data_end(d, pending), d._data_end,
                  d.default_compression_header>>
    IN  IF ~(official_data_end(d, pending) <= d._data_end)
        THEN [err |-> "AssertionError", bytes |-> <<>>]
        ELSE IF d._index_uuid = None \/ d._data_uuid = None
        THEN [err |-> "TypeError", bytes |-> <<>>]
        ELSE IF \E k \in 1..Len(data) : ~fits(data[k], S_HEADER[k])
        THEN [err |-> "struct.error", bytes |-> <<>>]
        ELSE [err |-> "",
              bytes |-> S_HEADER_pack(data, S_HEADER) \o d._index_uuid \o d._data_uuid]

\* parse_docket(revlog, data, use_pending): the docket, or the exception of
\* an assert of RevlogDocket.__init__
parse_docket(data, use_pending) ==
    LET header == S_HEADER_unpack(SubSeq(data, 1, S_HEADER_size), S_HEADER)
        offset == S_HEADER_size
        index_uuid == SubSeq(data, offset + 1, offset + header[2])
        data_uuid == SubSeq(data, offset + header[2] + 1, offset + header[2] + header[3])
    IN  IF ~(header[4] <= header[5]) \/ ~(header[6] <= header[7])
        THEN [err |-> "AssertionError", docket |-> NoDocket]
        ELSE [err |-> "",
              docket |-> RevlogDocket(use_pending, header[1], index_uuid, data_uuid,
                                      header[4], header[5], header[6], header[7],
                                      header[8])]

NoFile == [exists |-> FALSE, bytes |-> <<>>]

\* no write(pending=False) was made yet
NoFinal == [index_end |-> 0, data_end |-> 0, kind |-> "none"]

\* no call of write() was the last operation
NoWrite ==
    [wrote |-> FALSE, pending |-> FALSE, stripping |-> FALSE, follows |-> "none",
     reopened |-> FALSE]

\* the index_end setter
SetIndexEnd ==
    /\ ~docket.none
    /\ \E new_size \in 0..MaxEnd :
          /\ docket' = IF new_size # docket._index_end
                       THEN [docket EXCEPT !._index_end = new_size, !._dirty = TRUE]
                       ELSE docket
          /\ lowered' = (lowered \/ new_size < docket._index_end)
    /\ result' = "None"
    /\ lastwrite' = [NoWrite EXCEPT !.reopened = lastwrite.reopened]
    /\ UNCHANGED <<disk, backups, diskpending, lastfinal, monotone, notD>>

\* the data_end setter
SetDataEnd ==
    /\ ~docket.none
    /\ \E new_size \in 0..MaxEnd :
          /\ docket' = IF new_size # docket._data_end
                       THEN [docket EXCEPT !._data_end = new_size, !._dirty = TRUE]
                       ELSE docket
          /\ lowered' = (lowered \/ new_size < docket._data_end)
    /\ result' = "None"
    /\ lastwrite' = [NoWrite EXCEPT !.reopened = lastwrite.reopened]
    /\ UNCHANGED <<disk, backups, diskpending, lastfinal, monotone, notD>>

\* index_filepath(): the uuid is allocated on the first call
IndexFilepath ==
    /\ ~docket.none
    /\ docket' = IF docket._index_uuid = None
                 THEN [docket EXCEPT !._index_uuid = make_uid(1)] ELSE docket
    /\ result' = "path"
    /\ lastwrite' = [NoWrite EXCEPT !.reopened = lastwrite.reopened]
    /\ UNCHANGED <<disk, backups, diskpending, lastfinal, lowered, monotone, notD>>

\* data_filepath()
DataFilepath ==
    /\ ~docket.none
    /\ docket' = IF docket._data_uuid = None
                 THEN [docket EXCEPT !._data_uuid = make_uid(2)] ELSE docket
    /\ result' = "path"
    /\ lastwrite' = [NoWrite EXCEPT !.reopened = lastwrite.reopened]
    /\ UNCHANGED <<disk, backups, diskpending, lastfinal, lowered, monotone, notD>>

\* a write that registers a backup even when stripping
addbackup_always(registered, stripping) == registered + 1

\* if not stripping: transaction.addbackup(self._path, location=b'store')
addbackup(registered, stripping) ==
    IF stripping THEN registered ELSE registered + 1

\* a write that leaves the docket clean in every mode
dirty_after_write_clean(pending) == FALSE

\* self._dirty = pending: if pending we still need to write final data
dirty_after_write(pending) == pending

\* write(transaction, pending, stripping)
Write ==
    /\ ~docket.none
    /\ backups < MaxBackups
    /\ \E pending \in BOOLEAN, stripping \in BOOLEAN :
        /\ lastwrite' = [wrote |-> TRUE, pending |-> pending, stripping |-> stripping,
                         follows |-> IF ~(lastwrite.wrote /\ result = "True") THEN "none"
                                     ELSE IF lastwrite.pending THEN "pending"
                                     ELSE "final",
                         reopened |-> lastwrite.reopened]
        /\ IF ~docket._dirty
          THEN /\ result' = "False"
               /\ UNCHANGED <<docket, disk, backups, diskpending, lastfinal, monotone>>
          ELSE IF docket._read_only
          THEN /\ result' = "ProgrammingError"
               /\ UNCHANGED <<docket, disk, backups, diskpending, lastfinal, monotone>>
          ELSE LET s == _serialize(docket, pending)
               IN  /\ backups' = addbackup(backups, stripping)
                   /\ IF s.err # ""
                      THEN /\ result' = s.err
                           /\ UNCHANGED <<docket, disk, diskpending, lastfinal, monotone>>
                      ELSE /\ disk' = [exists |-> TRUE, bytes |-> s.bytes]
                           /\ docket' = [docket EXCEPT !._dirty = dirty_after_write(pending)]
                           /\ result' = "True"
                           /\ diskpending' = pending
                           /\ LET h == S_HEADER_unpack(s.bytes, S_HEADER)
                                  ordered == /\ lastfinal.index_end <= h[4]
                                             /\ lastfinal.data_end <= h[6]
                              IN  IF pending
                                  THEN UNCHANGED <<lastfinal, monotone>>
                                  ELSE /\ lastfinal' =
                                            [index_end |-> h[4], data_end |-> h[6],
                                             kind |-> IF stripping THEN "strip"
                                                                   ELSE "plain"]
                                       /\ monotone' =
                                            IF stripping \/ lastfinal.kind # "plain"
                                               \/ monotone = "broken"
                                            THEN monotone
                                            ELSE IF ordered THEN "held" ELSE "broken"
    /\ UNCHANGED <<lowered, notD>>

\* the revlog is opened again: parse_docket on the bytes of the file
Reopen ==
    /\ disk.exists
    /\ \E use_pending \in BOOLEAN :
          LET p == parse_docket(disk.bytes, use_pending)
          IN  IF p.err # ""
              THEN /\ result' = p.err
                   /\ lastwrite' = [NoWrite EXCEPT !.reopened = lastwrite.reopened]
                   /\ UNCHANGED <<docket, lowered>>
              ELSE /\ docket' = p.docket
                   /\ result' = "docket"
                   /\ lastwrite' = [NoWrite EXCEPT !.reopened = TRUE]
                   /\ lowered' = (lowered \/ p.docket._index_end < docket._index_end
                                          \/ p.docket._data_end < docket._data_end)
    /\ UNCHANGED <<disk, backups, diskpending, lastfinal, monotone, notD>>

DocketNext ==
    \/ SetIndexEnd
    \/ SetDataEnd
    \/ IndexFilepath
    \/ DataFilepath
    \/ Write
    \/ Reopen

(***************************************************************************)
(* pure/parsers.py: the index of a v1 revlog (IndexObject for a split      *)
(* revlog, InlinedIndexObject for an inline one).  The index data is a     *)
(* sequence of cells, one cell for each field of the entry format; in an   *)
(* inline revlog the payload of a revision follows its entry.              *)
(***************************************************************************)
\* sha1nodeconstants.nullid; the other nodes are 1..NumNodes
nullid == 0

nullrev == -1

COMP_MODE_INLINE == 2

\* index_format.size, in cells: the fields of INDEX_ENTRY_V1
entry_size == 8

\* struct.calcsize('>Q') and struct.calcsize('>i'), in cells
big_int_size == 1

int_size == 1

null_item == <<0, 0, 0, -1, -1, -1, -1, nullid, 0, 0, COMP_MODE_INLINE, COMP_MODE_INLINE>>

gettype(q) == q % 65536

\* int(int(offset) << 16 | type), for a type below 2^16
offset_type(offset, type) == offset * 65536 + type

\* a key the node map does not hold
Missing == -2

\* nodemaputil.NodeMap({nullid: nullrev})
NodeMap == [n \in 0..NumNodes |-> IF n = nullid THEN nullrev ELSE Missing]

\* the entry a caller appends: its node, the offset of its data, the
\* sidedata offset
NewEntry(node, offset, sidedata_offset) ==
    <<offset_type(offset, 0), 1, 1, -1, 0, -1, -1, node, sidedata_offset, 0,
      COMP_MODE_INLINE, COMP_MODE_INLINE>>

\* the tuples given to append: any node, nullid included, and for the first
\* node also a non-zero data offset and a non-zero sidedata offset
Tuples ==
    {NewEntry(n, 0, 0) : n \in 0..NumNodes}
        \cup {NewEntry(1, 1, 0), NewEntry(1, 0, 1)}

\* index_format.pack(*entry[:8])
index_format_pack(entry) == SubSeq(entry, 1, 8)

\* _pack_entry(entry): the packed entry, or the exception of its asserts
_pack_entry(entry) ==
    IF entry[9] # 0 \/ entry[10] # 0
    THEN [err |-> "AssertionError", data |-> <<>>]
    ELSE [err |-> "", data |-> index_format_pack(entry)]

\* BaseIndexObject._unpack_entry(data)
_unpack_entry(data) == data \o <<0, 0, COMP_MODE_INLINE, COMP_MODE_INLINE>>

\* the index file of a revlog with k revisions: revision r has node r + 1,
\* the flag bits 1, its data at offset r + 1 (for revision 0 these are the
\* bits of the version header) and, when inline, a payload of one cell
DiskEntry(r) ==
    index_format_pack([NewEntry(r + 1, r + 1, 0) EXCEPT ![1] = offset_type(r + 1, 1)])

RECURSIVE DiskData(_, _)
DiskData(k, inline) ==
    IF k = 0 THEN <<>>
    ELSE DiskData(k - 1, inline) \o DiskEntry(k - 1)
            \o (IF inline THEN <<99>> ELSE <<>>)

\* IndexObject.__init__(data)
IndexObject(data) ==
    [inline |-> FALSE, _data |-> data, _offsets |-> <<>>,
     _lgt |-> Len(data) \div entry_size, _extra |-> <<>>,
     has_nodemap |-> FALSE, _nodemap |-> NodeMap]

\* data[a:b] as Python slices a sequence: a negative position counts from
\* the end, positions outside the sequence are clamped
PySlice(data, a, b) ==
    LET n == Len(data)
        clamp(i) == IF i < 0 THEN (IF i + n < 0 THEN 0 ELSE i + n)
                    ELSE IF i > n THEN n ELSE i
    IN  IF clamp(a) >= clamp(b) THEN <<>>
        ELSE SubSeq(data, clamp(a) + 1, clamp(b))

\* the entry size of the v2 format and the position of the sidedata length
\* in a v2 entry, in cells (96 and 72 in bytes)
Index2Mixin_entry_size == 11

sidedata_length_pos == 9

\* the loop of _inline_scan from off on, for entries of esize cells whose
\* lengths are read at the positions fields of the entry: the exception
\* raised or "", the offsets stored and the off reached.  struct.unpack
\* raises struct.error when the slice it is given is short; the loop never
\* ends ("hang") once it comes back to an off it has been at, since what it
\* does at an off depends on the off alone.
RECURSIVE inline_walk(_, _, _, _, _)
inline_walk(data, esize, fields, off, seen) ==
    IF off <= Len(data) - esize
    THEN IF off \in seen
         THEN [err |-> "hang", offsets |-> <<>>, off |-> off]
         ELSE LET read == [k \in 1..Len(fields) |->
                              PySlice(data, off + fields[k], off + fields[k] + int_size)]
              IN  IF \E k \in 1..Len(fields) : Len(read[k]) # int_size
                  THEN [err |-> "struct.error", offsets |-> <<>>, off |-> off]
                  ELSE LET s == Sum([k \in 1..Len(fields) |-> read[k][1]])
                           rest == inline_walk(data, esize, fields,
                                               off + esize + s, seen \cup {off})
                       IN  IF rest.err \in {"", "ValueError"}
                           THEN [rest EXCEPT !.offsets = <<off>> \o @]
                           ELSE rest
    ELSE [err |-> IF off # Len(data) THEN "ValueError" ELSE "",
          offsets |-> <<>>, off |-> off]

\* InlinedIndexObject._inline_scan, as __init__ runs it (once for the count,
\* once for the offsets: the same loop)
_inline_scan(data) ==
    inline_walk(data, entry_size, <<big_int_size>>, 0, {})

\* InlinedIndexObject2._inline_scan
InlinedIndexObject2_inline_scan(data) ==
    inline_walk(data, Index2Mixin_entry_size,
                <<big_int_size, sidedata_length_pos>>, 0, {})

\* InlinedIndexObject.__init__(data, inline)
InlinedIndexObject(data) ==
    LET offsets == _inline_scan(data).offsets
    IN  [inline |-> TRUE, _data |-> data, _offsets |-> offsets,
         _lgt |-> Len(offsets), _extra |-> <<>>,
         has_nodemap |-> FALSE, _nodemap |-> NodeMap]

\* __len__
__len__(x) == x._lgt + Len(x._extra)

\* _calculate_index(i) of the two classes
_calculate_index(x, i) == IF x.inline THEN x._offsets[i + 1] ELSE i * entry_size

\* _check_index(i), for an integer i
_check_index(x, i) == IF i < 0 \/ i >= __len__(x) THEN "IndexError" ELSE ""

\* __getitem__ with the offset of revision 0 masked in every index
__getitem__masked(x, i) ==
    IF i = -1 THEN [err |-> "", item |-> null_item]
    ELSE IF _check_index(x, i) # "" THEN [err |-> _check_index(x, i), item |-> <<>>]
    ELSE LET data == IF i >= x._lgt THEN x._extra[i - x._lgt + 1]
                     ELSE SubSeq(x._data, _calculate_index(x, i) + 1,
                                 _calculate_index(x, i) + entry_size)
             r == _unpack_entry(data)
         IN  [err |-> "",
              item |-> IF i = 0
                       THEN <<offset_type(0, gettype(r[1]))>> \o Tail(r)
                       ELSE r]

\* __getitem__(i): the entry, or the exception raised
__getitem__(x, i) ==
    IF i = -1 THEN [err |-> "", item |-> null_item]
    ELSE IF _check_index(x, i) # "" THEN [err |-> _check_index(x, i), item |-> <<>>]
    ELSE LET data == IF i >= x._lgt THEN x._extra[i - x._lgt + 1]
                     ELSE SubSeq(x._data, _calculate_index(x, i) + 1,
                                 _calculate_index(x, i) + entry_size)
             r == _unpack_entry(data)
         IN  [err |-> "",
              item |-> IF x._lgt # 0 /\ i = 0
                       THEN <<offset_type(0, gettype(r[1]))>> \o Tail(r)
                       ELSE r]

\* the entries of revisions 0..len-1, as __getitem__ returns them
Entries(x) == [r \in 1..__len__(x) |-> __getitem__(x, r - 1).item]

\* the propertycache _nodemap: computed from the entries on first use
RECURSIVE fillnodemap(_, _)
fillnodemap(x, n) ==
    IF n = 0 THEN NodeMap
    ELSE [fillnodemap(x, n - 1) EXCEPT ![__getitem__(x, n - 1).item[8]] = n - 1]

_nodemap(x) ==
    IF x.has_nodemap THEN x
    ELSE [x EXCEPT !.has_nodemap = TRUE, !._nodemap = fillnodemap(x, __len__(x))]

\* has_node(node)
has_node(x, node) == _nodemap(x)._nodemap[node] # Missing

\* rev(node): the revision, or the RevlogError of NodeMap.__missing__
rev(x, node) ==
    IF _nodemap(x)._nodemap[node] = Missing THEN [err |-> "RevlogError", rev |-> Missing]
    ELSE [err |-> "", rev |-> _nodemap(x)._nodemap[node]]

\* get_rev(node): the revision, or Missing for None
get_rev(x, node) == _nodemap(x)._nodemap[node]

\* _stripnodes(start), from revision r on: the node map it leaves, or KeyError
\* at the first node the map does not hold
RECURSIVE _stripnodes(_, _, _)
_stripnodes(x, nodemap, r) ==
    IF ~x.has_nodemap \/ r >= __len__(x) THEN [err |-> "", nodemap |-> nodemap]
    ELSE LET n == __getitem__(x, r).item[8]
         IN  IF nodemap[n] = Missing THEN [err |-> "KeyError", nodemap |-> nodemap]
             ELSE _stripnodes(x, [nodemap EXCEPT ![n] = Missing], r + 1)

\* the slice a:b of del index[a:b]
Slice(a, b) == [start |-> a, stop |-> b]

\* IndexObject.__delitem__(slice): the exception raised or "", and the index
IndexObject__delitem__(x, slice) ==
    LET i == slice.start
        sn == _stripnodes(x, x._nodemap, i)
        y == [x EXCEPT !._nodemap = sn.nodemap]
    IN  IF slice.stop # -1 THEN [err |-> "ValueError", index |-> x]
        ELSE IF _check_index(x, i) # "" THEN [err |-> _check_index(x, i), index |-> x]
        ELSE IF sn.err # "" THEN [err |-> sn.err, index |-> y]
        ELSE IF i < x._lgt
        THEN [err |-> "",
              index |-> [y EXCEPT !._data = SubSeq(x._data, 1, i * entry_size),
                                  !._lgt = i, !._extra = <<>>]]
        ELSE [err |-> "",
              index |-> [y EXCEPT !._extra = SubSeq(x._extra, 1, i - x._lgt)]]

\* InlinedIndexObject.__delitem__(slice)
InlinedIndexObject__delitem__(x, slice) ==
    LET i == slice.start
        sn == _stripnodes(x, x._nodemap, i)
        y == [x EXCEPT !._nodemap = sn.nodemap]
    IN  IF slice.stop # -1 THEN [err |-> "ValueError", index |-> x]
        ELSE IF _check_index(x, i) # "" THEN [err |-> _check_index(x, i), index |-> x]
        ELSE IF sn.err # "" THEN [err |-> sn.err, index |-> y]
        ELSE IF i < x._lgt
        THEN [err |-> "",
              index |-> [y EXCEPT !._offsets = SubSeq(x._offsets, 1, i),
                                  !._lgt = i, !._extra = <<>>]]
        ELSE [err |-> "",
              index |-> [y EXCEPT !._extra = SubSeq(x._extra, 1, i - x._lgt)]]

NoIndex ==
    [inline |-> FALSE, _data |-> <<>>, _offsets |-> <<>>, _lgt |-> 0,
     _extra |-> <<>>, has_nodemap |-> FALSE, _nodemap |-> NodeMap]

Call(name, i, tup, ret, before, dup) ==
    [op |-> name, i |-> i, tup |-> tup, ret |-> ret, before |-> before, dup |-> dup]

NoCall == Call("none", 0, <<>>, "", <<>>, FALSE)

\* some revision of the index has the node
HasRevWithNode(x, node) ==
    \E r \in 1..__len__(x) : Entries(x)[r][8] = node

\* index.append(tup)
IndexAppend ==
    /\ __len__(index) < MaxLen
    /\ \E tup \in Tuples :
          LET x == IF index.has_nodemap
                   THEN [index EXCEPT !._nodemap[tup[8]] = __len__(index)]
                   ELSE index
              data == _pack_entry(tup)
          IN  /\ index' = IF data.err # "" THEN x
                          ELSE [x EXCEPT !._extra = Append(@, data.data)]
              /\ last' = Call("append", __len__(index), tup,
                              IF data.err # "" THEN data.err ELSE "ok",
                              Entries(index), HasRevWithNode(index, tup[8]))
    /\ UNCHANGED notI

\* del index[start:stop]
IndexDelItem ==
    /\ \E start \in -1..MaxLen, stop \in {-1, 0} :
          LET d == IF index.inline
                   THEN InlinedIndexObject__delitem__(index, Slice(start, stop))
                   ELSE IndexObject__delitem__(index, Slice(start, stop))
          IN  /\ index' = d.index
              /\ last' = Call(IF stop = -1 THEN "strip" ELSE "delitem", start, <<>>,
                              IF d.err # "" THEN d.err ELSE "ok",
                              Entries(index), FALSE)
    /\ UNCHANGED notI

\* index[i]
IndexGetItem ==
    /\ \E i \in -2..MaxLen :
          last' = Call("getitem", i, __getitem__(index, i).item,
                       IF __getitem__(index, i).err # ""
                       THEN __getitem__(index, i).err ELSE "ok",
                       <<>>, FALSE)
    /\ UNCHANGED <<index, notI>>

\* index.has_node(node)
IndexHasNode ==
    /\ \E node \in 0..NumNodes :
          /\ index' = _nodemap(index)
          /\ last' = Call("has_node", node, <<>>,
                          IF has_node(index, node) THEN "True" ELSE "False",
                          <<>>, FALSE)
    /\ UNCHANGED notI

\* index.clearcaches()
IndexClearcaches ==
    /\ index' = [index EXCEPT !.has_nodemap = FALSE, !._nodemap = NodeMap]
    /\ last' = Call("clearcaches", 0, <<>>, "ok", <<>>, FALSE)
    /\ UNCHANGED notI

IndexNext ==
    \/ IndexAppend
    \/ IndexDelItem
    \/ IndexGetItem
    \/ IndexHasNode
    \/ IndexClearcaches

(***************************************************************************)
(* pure/parsers.py: packing and unpacking one index entry, in the v1       *)
(* format (BaseIndexObject) and in the v2 format (Index2Mixin).  A packed   *)
(* v2 entry has eleven cells: the ten first fields and the byte of the two *)
(* compression modes.                                                      *)
(***************************************************************************)
COMP_MODE_PLAIN == 0

COMP_MODE_DEFAULT == 1

\* Index2Mixin._pack_entry with the two compression modes exchanged
Index2Mixin_pack_entry_swapped(entry) ==
    [err |-> "",
     data |-> SubSeq(entry, 1, 10) \o <<(entry[12] % 4) + (entry[11] % 4) * 4>>]

\* Index2Mixin._pack_entry(entry): data_comp = entry[10] & 3,
\* sidedata_comp = (entry[11] & 3) << 2, packed as data_comp | sidedata_comp
Index2Mixin_pack_entry(entry) ==
    [err |-> "",
     data |-> SubSeq(entry, 1, 10) \o <<(entry[11] % 4) + (entry[12] % 4) * 4>>]

\* Index2Mixin._unpack_entry(data): data_comp = data[10] & 3,
\* sidedata_comp = (data[10] & (3 << 2)) >> 2
Index2Mixin_unpack_entry(data) ==
    SubSeq(data, 1, 10) \o <<data[11] % 4, (data[11] \div 4) % 4>>

\* the entries given to _pack_entry
CodecEntries ==
    {<<offset_type(o, f), 1, 1, -1, 0, -1, -1, 1, so, sl, dc, sc>> :
        o \in {0, 1}, f \in {0, 1}, so \in {0, 1}, sl \in {0, 1},
        dc \in {COMP_MODE_PLAIN, COMP_MODE_DEFAULT, COMP_MODE_INLINE},
        sc \in {COMP_MODE_PLAIN, COMP_MODE_DEFAULT, COMP_MODE_INLINE}}

NoPacked == [err |-> "", data |-> <<>>]

NoCodec == [pc |-> "idle", format |-> "", entry |-> <<>>, packed |-> NoPacked, unpacked |-> <<>>]

\* self._pack_entry(entry) of an index of the format
CodecPack ==
    /\ codec.pc = "entry"
    /\ codec' = [codec EXCEPT !.pc = "packed",
                              !.packed = IF codec.format = "v1"
                                         THEN _pack_entry(codec.entry)
                                         ELSE Index2Mixin_pack_entry(codec.entry)]
    /\ UNCHANGED notC

\* self._unpack_entry(data) on what was packed
CodecUnpack ==
    /\ codec.pc = "packed"
    /\ codec.packed.err = ""
    /\ codec' = [codec EXCEPT !.pc = "unpacked",
                              !.unpacked = IF codec.format = "v1"
                                           THEN _unpack_entry(codec.packed.data)
                                           ELSE Index2Mixin_unpack_entry(codec.packed.data)]
    /\ UNCHANGED notC

CodecNext ==
    \/ CodecPack
    \/ CodecUnpack

(***************************************************************************)
(* pure/parsers.py: the scan of an inline index, v1 (InlinedIndexObject)   *)
(* and v2 (InlinedIndexObject2).  The byte string is made of chunks: an    *)
(* entry with the lengths it declares, then the cells that follow it.      *)
(***************************************************************************)
\* a chunk: the compressed length and the sidedata length the entry
\* declares (signed, as '>i' reads them) and the cells after the entry
Chunks(version) ==
    IF version = 1
    THEN [s : {-10, -9, -8, -1, 0, 1, 2}, sl : {0}, p : 0..MaxPayload]
    ELSE [s : {-11, -1, 0, 1}, sl : {-1, 0, 1}, p : 0..MaxPayload]

ChunkSeqs(version) ==
    UNION {[1..n -> Chunks(version)] : n \in 0..MaxChunks}

\* the cells of one chunk
ChunkData(version, c) ==
    LET entry == [NewEntry(1, 0, 0) EXCEPT ![2] = c.s, ![10] = c.sl]
    IN  (IF version = 1 THEN index_format_pack(entry)
         ELSE Index2Mixin_pack_entry(entry).data)
            \o [k \in 1..c.p |-> 99]

RECURSIVE ScanData(_, _)
ScanData(version, cs) ==
    IF cs = <<>> THEN <<>>
    ELSE ChunkData(version, Head(cs)) \o ScanData(version, Tail(cs))

NoResult == [err |-> "none", offsets |-> <<>>, off |-> 0]

NoScan == [version |-> 0, chunks |-> <<>>, data |-> <<>>, result |-> NoResult]

\* InlinedIndexObject(data): the scan of __init__
InlineScan ==
    /\ scan.version = 1
    /\ scan.result = NoResult
    /\ scan' = [scan EXCEPT !.result = _inline_scan(scan.data)]
    /\ UNCHANGED notS

\* InlinedIndexObject2(data): the scan of __init__
InlineScan2 ==
    /\ scan.version = 2
    /\ scan.result = NoResult
    /\ scan' = [scan EXCEPT !.result = InlinedIndexObject2_inline_scan(scan.data)]
    /\ UNCHANGED notS

ScanNext ==
    \/ InlineScan
    \/ InlineScan2

(***************************************************************************)
(* docket.py: the header of a docket whose ends are as large as Python     *)
(* integers can be.  An end is written here as the eight base-256 digits   *)
(* of its value, most significant first: 2^32 and 2^64 - 1 are beyond the  *)
(* integers of the model.  _serialize and parse_docket are the ones above  *)
(* with the four ends handled as digits.                                   *)
(***************************************************************************)
WideDigits == 8

\* 0, 1, 2^32 - 1, 2^32, 2^64 - 1
WideValues ==
    {<<0, 0, 0, 0, 0, 0, 0, 0>>, <<0, 0, 0, 0, 0, 0, 0, 1>>,
     <<0, 0, 0, 0, 255, 255, 255, 255>>, <<0, 0, 0, 1, 0, 0, 0, 0>>,
     <<255, 255, 255, 255, 255, 255, 255, 255>>}

\* a <= b
wide_le(a, b) ==
    \/ a = b
    \/ \E i \in 1..WideDigits :
          /\ a[i] < b[i]
          /\ \A j \in 1..(i - 1) : a[j] = b[j]

\* struct: an unsigned big-endian field of n bytes, for a value in digits
wide_fits(v, n) == \A i \in 1..(WideDigits - n) : v[i] = 0

wide_pack(v, n) == SubSeq(v, WideDigits - n + 1, WideDigits)

wide_unpack(b) == [i \in 1..(WideDigits - Len(b)) |-> 0] \o b

\* the position of field k of S_HEADER in the packed header
S_HEADER_offset(k) == Sum(SubSeq(S_HEADER, 1, k - 1))

\* RevlogDocket._serialize(pending) for ends in digits
_serialize_wide(d, pending) ==
    LET ends == <<official_index_end(d, pending), d._index_end,
                  official_data_end(d, pending), d._data_end>>
    IN  IF ~wide_le(official_data_end(d, pending), d._data_end)
        THEN [err |-> "AssertionError", bytes |-> <<>>]
        ELSE IF d._index_uuid = None \/ d._data_uuid = None
        THEN [err |-> "TypeError", bytes |-> <<>>]
        ELSE IF \/ ~fits(d._version_header, S_HEADER[1])
                \/ ~fits(Len(d._index_uuid), S_HEADER[2])
                \/ ~fits(Len(d._data_uuid), S_HEADER[3])
                \/ \E k \in 1..4 : ~wide_fits(ends[k], S_HEADER[3 + k])
                \/ ~fits(d.default_compression_header, S_HEADER[8])
        THEN [err |-> "struct.error", bytes |-> <<>>]
        ELSE [err |-> "",
              bytes |-> pack_be(d._version_header, S_HEADER[1])
                          \o pack_be(Len(d._index_uuid), S_HEADER[2])
                          \o pack_be(Len(d._data_uuid), S_HEADER[3])
                          \o wide_pack(ends[1], S_HEADER[4])
                          \o wide_pack(ends[2], S_HEADER[5])
                          \o wide_pack(ends[3], S_HEADER[6])
                          \o wide_pack(ends[4], S_HEADER[7])
                          \o pack_be(d.default_compression_header, S_HEADER[8])
                          \o d._index_uuid \o d._data_uuid]

\* parse_docket(revlog, data, use_pending) for ends in digits
parse_docket_wide(data, use_pending) ==
    LET field(k) == SubSeq(data, S_HEADER_offset(k) + 1,
                           S_HEADER_offset(k) + S_HEADER[k])
        offset == S_HEADER_size
        index_uuid_size == unpack_be(field(2))
        data_uuid_size == unpack_be(field(3))
        index_uuid == SubSeq(data, offset + 1, offset + index_uuid_size)
        data_uuid == SubSeq(data, offset + index_uuid_size + 1,
                            offset + index_uuid_size + data_uuid_size)
        index_size == wide_unpack(field(4))
        pending_index_size == wide_unpack(field(5))
        data_size == wide_unpack(field(6))
        pending_data_size == wide_unpack(field(7))
    IN  IF ~wide_le(index_size, pending_index_size)
           \/ ~wide_le(data_size, pending_data_size)
        THEN [err |-> "AssertionError", docket |-> NoDocket]
        ELSE [err |-> "",
              docket |-> RevlogDocket(use_pending, unpack_be(field(1)),
                                      index_uuid, data_uuid,
                                      index_size, pending_index_size,
                                      data_size, pending_data_size,
                                      unpack_be(field(8)))]

\* the dockets given: as parse_docket built them from a file (the ends
\* loaded at most the pending ones), then with the uuids of a written one
WideDockets ==
    {RevlogDocket(FALSE, REVLOGV2, make_uid(1), make_uid(2), a, b, c, e, CompHeader) :
        a \in WideValues, b \in WideValues, c \in WideValues, e \in WideValues}

NoHeader ==
    [pc |-> "idle", docket |-> NoDocket, pending |-> FALSE,
     written |-> [err |-> "none", bytes |-> <<>>],
     read |-> [err |-> "none", docket |-> NoDocket]]

\* the caller sets index_end and data_end (docket.py:158-172)
HeaderSetEnds ==
    /\ wide.pc = "docket"
    /\ \E i \in WideValues, e \in WideValues :
          /\ wide_le(wide.docket._initial_index_end, i)
          /\ wide_le(wide.docket._initial_data_end, e)
          /\ wide' = [wide EXCEPT !.pc = "set",
                                      !.docket._index_end = i,
                                      !.docket._data_end = e,
                                      !.docket._dirty = TRUE]
    /\ UNCHANGED notH

\* write(): _serialize(pending)
HeaderSerialize ==
    /\ wide.pc = "set"
    /\ \E pending \in BOOLEAN :
          wide' = [wide EXCEPT !.pc = "written", !.pending = pending,
                                   !.written = _serialize_wide(wide.docket, pending)]
    /\ UNCHANGED notH

\* parse_docket of the bytes written, by a reader that sees the pending ends
\* or not
HeaderParse ==
    /\ wide.pc = "written"
    /\ wide.written.err = ""
    /\ \E use_pending \in BOOLEAN :
          wide' = [wide EXCEPT !.pc = "read",
                                   !.read = parse_docket_wide(wide.written.bytes,
                                                              use_pending)]
    /\ UNCHANGED notH

HeaderNext ==
    \/ HeaderSetEnds
    \/ HeaderSerialize
    \/ HeaderParse

\* upgraderepo from its call on
ValidateNext ==
    \/ Validate
    \/ WLock
    \/ Lock
    \/ MkTmp
    \/ CreateDst
    \/ Begin
    \/ CloneOne
    \/ CopyFiles
    \/ MkBackup
    \/ CopyRequires
    \/ LockOut
    \/ Rename1
    \/ Rename2
    \/ FinalReq
    \/ Unlink
    \/ Returned
    \/ Fail
    \/ Finally
    \/ Release

(***************************************************************************)
(* engine.py: the loop of upgrade() over the entries of the store          *)
(* directory, one entry at a time.                                         *)
(***************************************************************************)
\* names an entry of the store directory can have
EntryNames ==
    {<<"0", "0", "c", "h", "a", "n", "g", "e", "l", "o", "g", ".", "i">>,
     <<"0", "0", "c", "h", "a", "n", "g", "e", "l", "o", "g", ".", "d">>,
     <<"0", "0", "c", "h", "a", "n", "g", "e", "l", "o", "g", ".", "n">>,
     <<"0", "0", "c", "h", "a", "n", "g", "e", "l", "o", "g", ".", "n", "d">>,
     <<"0", "0", "m", "a", "n", "i", "f", "e", "s", "t", ".", "i">>,
     <<"0", "0", "m", "a", "n", "i", "f", "e", "s", "t", ".", "d">>,
     <<"d", "a", "t", "a">>,
     <<"f", "n", "c", "a", "c", "h", "e">>,
     <<"l", "o", "c", "k">>,
     <<"p", "h", "a", "s", "e", "r", "o", "o", "t", "s">>,
     <<"u", "n", "d", "o">>,
     <<"u", "n", "d", "o", ".", "p", "h", "a", "s", "e", "r", "o", "o", "t", "s">>,
     <<"u", "n", "d", "o", ".", "b", "a", "c", "k", "u", "p", ".", "f", "n", "c", "a", "c", "h", "e">>,
     <<"o", "b", "s", "s", "t", "o", "r", "e">>,
     <<"r", "e", "q", "u", "i", "r", "e", "s">>,
     <<"l", "o", "c", "k", ".", "o", "l", "d">>,
     <<"f", "n", "c", "a", "c", "h", "e", "x">>,
     <<"x", "u", "n", "d", "o">>,
     <<"u", "n", "d", "o", "n", "e">>,
     <<"u", "n", "l", "o", "c", "k">>,
     <<"i">>,
     <<".", "n", "d">>,
     <<"a", ".", "n">>,
     <<"n", "o", "t", "e", "s", ".", "n", "d", ".", "t", "x", "t">>,
     <<"n", "a", "r", "r", "o", "w", "s", "p", "e", "c">>,
     <<"0", "0", "c", "h", "a", "n", "g", "e", "l", "o", "g", ".", "i", "d">>}

\* the file types readdir reports: a regular file, a directory, a link
EntryModes == {"S_IFREG", "S_IFDIR", "S_IFLNK"}

NoEntry == [pc |-> "idle", path |-> <<>>, mode |-> "S_IFREG"]

\* if not _filterstorefile(...): continue
FilterEntry ==
    /\ dirent.pc = "listed"
    /\ dirent' = [dirent EXCEPT !.pc = IF _filterstorefile(dirent.path, dirent.mode)
                                       THEN "kept" ELSE "skipped"]
    /\ UNCHANGED notF

\* util.copyfile(src, dst, copystat=True)
CopyEntry ==
    /\ dirent.pc = "kept"
    /\ dirent' = [dirent EXCEPT !.pc = "copied"]
    /\ UNCHANGED notF

FilterNext ==
    \/ FilterEntry
    \/ CopyEntry

(***************************************************************************)
(* flagutil.py: the registry of flag processors.  The flags are the        *)
(* sixteen-bit values of revlogutils/constants.py, the processors are two  *)
(* names.                                                                  *)
(***************************************************************************)
REVIDX_ISCENSORED == 32768

REVIDX_ELLIPSIS == 16384

REVIDX_EXTSTORED == 8192

REVIDX_SIDEDATA == 4096

REVIDX_FLAGS_ORDER ==
    <<REVIDX_ISCENSORED, REVIDX_ELLIPSIS, REVIDX_EXTSTORED, REVIDX_SIDEDATA>>

\* a & b on naturals
RECURSIVE bitand(_, _)
bitand(a, b) ==
    IF a = 0 \/ b = 0 THEN 0
    ELSE (a % 2) * (b % 2) + 2 * bitand(a \div 2, b \div 2)

\* util.bitsfrom: bits = 0; for bit in container: bits |= bit
RECURSIVE bitsfrom(_)
bitsfrom(container) ==
    IF container = <<>> THEN 0
    ELSE LET bits == bitsfrom(Tail(container))
             bit == Head(container)
         IN  bits + bit - bitand(bits, bit)

REVIDX_KNOWN_FLAGS == bitsfrom(REVIDX_FLAGS_ORDER)

\* flagprocessors = {REVIDX_ISCENSORED: None}
flagprocessors_loaded == REVIDX_ISCENSORED :> "None"

\* insertflagprocessor without the test of `flag in flagprocessors`
insertflagprocessor_overwrite(flag, processor, flagprocessors) ==
    IF bitand(flag, REVIDX_KNOWN_FLAGS) = 0
    THEN [raised |-> "ProgrammingError", flagprocessors |-> flagprocessors]
    ELSE IF \A k \in DOMAIN REVIDX_FLAGS_ORDER : REVIDX_FLAGS_ORDER[k] # flag
    THEN [raised |-> "ProgrammingError", flagprocessors |-> flagprocessors]
    ELSE [raised |-> "", flagprocessors |-> (flag :> processor) @@ flagprocessors]

\* insertflagprocessor(flag, processor, flagprocessors): what it raises, ""
\* when it returns, and the dictionary after the call
insertflagprocessor(flag, processor, flagprocessors) ==
    IF bitand(flag, REVIDX_KNOWN_FLAGS) = 0
    THEN [raised |-> "ProgrammingError", flagprocessors |-> flagprocessors]
    ELSE IF \A k \in DOMAIN REVIDX_FLAGS_ORDER : REVIDX_FLAGS_ORDER[k] # flag
    THEN [raised |-> "ProgrammingError", flagprocessors |-> flagprocessors]
    ELSE IF flag \in DOMAIN flagprocessors
    THEN [raised |-> "Abort", flagprocessors |-> flagprocessors]
    ELSE [raised |-> "", flagprocessors |-> (flag :> processor) @@ flagprocessors]

\* the flags given to addflagprocessor: the four of the order, no bit, a bit
\* that is no flag, two flags at once, a flag with a bit that is no flag
FlagValues ==
    {0, 1, REVIDX_SIDEDATA, REVIDX_EXTSTORED, REVIDX_ELLIPSIS,
     REVIDX_ISCENSORED, REVIDX_ELLIPSIS + REVIDX_EXTSTORED,
     REVIDX_ISCENSORED + 1}

\* the (read, write, raw) triples given to addflagprocessor
Processors == {"p1", "p2"}

NoRegistration ==
    [flag |-> 0, processor |-> "None", raised |-> "",
     before |-> flagprocessors_loaded]

NoRegistry ==
    [pc |-> "idle", flagprocessors |-> <<>>, first |-> <<>>, called |-> FALSE,
     registration |-> NoRegistration]

\* addflagprocessor(flag, processor).  first keeps, for each flag, the
\* processor of the first call that named it
AddFlagProcessor ==
    /\ registry.pc = "loaded"
    /\ \E flag \in FlagValues, processor \in Processors :
          LET r == insertflagprocessor(flag, processor, registry.flagprocessors)
          IN  registry' =
                  [registry EXCEPT
                      !.flagprocessors = r.flagprocessors,
                      !.first = IF flag \in DOMAIN registry.first
                                THEN registry.first
                                ELSE (flag :> processor) @@ registry.first,
                      !.called = TRUE,
                      !.registration =
                          [flag |-> flag, processor |-> processor,
                           raised |-> r.raised,
                           before |-> registry.flagprocessors]]
    /\ UNCHANGED notG

FlagNext ==
    \/ AddFlagProcessor

(***************************************************************************)
(* engine.py: one turn of the copying loop of _clonerevlogs, for any path  *)
(* store.walk() can yield and any revlog filter.                           *)
(***************************************************************************)
\* the unencoded paths of the store: the changelog, the root manifest, a tree
\* manifest, the filelogs of files named f, 00changelog, d/00changelog and
\* 00manifest, and data files
WalkedPaths ==
    {pathname("00changelog.i"), pathname("00changelog.d"),
     pathname("00manifest.i"), pathname("00manifest.d"),
     pathname("data/f.i"), pathname("data/f.d"),
     <<"m", "e", "t", "a", "/", "d", "/">> \o pathname("00manifest.i"),
     <<"d", "a", "t", "a", "/">> \o pathname("00changelog.i"),
     <<"d", "a", "t", "a", "/", "d", "/">> \o pathname("00changelog.i"),
     <<"d", "a", "t", "a", "/">> \o pathname("00manifest.i")}

NoRevlog == [class |-> "none", of |-> <<>>]

NoWalked == [pc |-> "idle", unencoded |-> <<>>, revlogs |-> {}, oldrl |-> NoRevlog]

\* if unencoded.endswith(b'.d'): continue
SkipData ==
    /\ walked.pc = "listed"
    /\ endswith(walked.unencoded, <<".", "d">>)
    /\ walked' = [walked EXCEPT !.pc = "skipped"]
    /\ UNCHANGED notK

\* oldrl = _revlogfrompath(srcrepo, unencoded)
OpenRevlog ==
    /\ walked.pc = "listed"
    /\ ~endswith(walked.unencoded, <<".", "d">>)
    /\ walked' = [walked EXCEPT !.pc = "opened",
                                !.oldrl = _revlogfrompath(walked.unencoded)]
    /\ UNCHANGED notK

\* if matchrevlog(revlogs, unencoded): oldrl.clone(tr, newrl, ...)
CloneRevlog ==
    /\ walked.pc = "opened"
    /\ matchrevlog(walked.revlogs, walked.unencoded)
    /\ walked' = [walked EXCEPT !.pc = "cloned"]
    /\ UNCHANGED notK

\* else: _copyrevlog(tr, dstrepo, oldrl, unencoded)
CopyRevlog ==
    /\ walked.pc = "opened"
    /\ ~matchrevlog(walked.revlogs, walked.unencoded)
    /\ walked' = [walked EXCEPT !.pc = "copied"]
    /\ UNCHANGED notK

ClassifyNext ==
    \/ SkipData
    \/ OpenRevlog
    \/ CloneRevlog
    \/ CopyRevlog

(***************************************************************************)
(* pure/parsers.py: the index of a v2 revlog (IndexObject2), with          *)
(* replace_sidedata_info.  Entries are of the v2 format, eleven cells.     *)
(***************************************************************************)
\* the v2 index file of a revlog with k revisions: revision r has node r + 1,
\* its data at offset r + 1 and no sidedata
RECURSIVE DiskData2(_)
DiskData2(k) ==
    IF k = 0 THEN <<>>
    ELSE DiskData2(k - 1) \o Index2Mixin_pack_entry(NewEntry(k, k, 0)).data

\* IndexObject2.__init__(data): IndexObject.__init__ with the v2 entry size
IndexObject2(data) ==
    [inline |-> FALSE, _data |-> data, _offsets |-> <<>>,
     _lgt |-> Len(data) \div Index2Mixin_entry_size, _extra |-> <<>>,
     has_nodemap |-> FALSE, _nodemap |-> NodeMap]

\* __getitem__(i) of a v2 index: the entry, or the exception raised
IndexObject2__getitem__(x, i) ==
    IF i = -1 THEN [err |-> "", item |-> null_item]
    ELSE IF _check_index(x, i) # "" THEN [err |-> _check_index(x, i), item |-> <<>>]
    ELSE LET data == IF i >= x._lgt THEN x._extra[i - x._lgt + 1]
                     ELSE SubSeq(x._data, i * Index2Mixin_entry_size + 1,
                                 i * Index2Mixin_entry_size + Index2Mixin_entry_size)
             r == Index2Mixin_unpack_entry(data)
         IN  [err |-> "",
              item |-> IF x._lgt # 0 /\ i = 0
                       THEN <<offset_type(0, gettype(r[1]))>> \o Tail(r)
                       ELSE r]

\* the propertycache _nodemap of a v2 index
RECURSIVE fillnodemap2(_, _)
fillnodemap2(x, n) ==
    IF n = 0 THEN NodeMap
    ELSE [fillnodemap2(x, n - 1) EXCEPT ![IndexObject2__getitem__(x, n - 1).item[8]] = n - 1]

\* append(tup) on a v2 index
IndexObject2_append(x, tup) ==
    LET y == IF x.has_nodemap THEN [x EXCEPT !._nodemap[tup[8]] = __len__(x)] ELSE x
    IN  [y EXCEPT !._extra = Append(@, Index2Mixin_pack_entry(tup).data)]

\* replace_sidedata_info that leaves offset_flags as it was
replace_sidedata_info_keepflags(x, rv, sidedata_offset, sidedata_length, offset_flags) ==
    IF rv < 0 THEN [err |-> "KeyError", index |-> x]
    ELSE IF _check_index(x, rv) # "" THEN [err |-> _check_index(x, rv), index |-> x]
    ELSE IF rv < x._lgt THEN [err |-> "KeyError", index |-> x]
    ELSE LET entry == [IndexObject2__getitem__(x, rv).item
                          EXCEPT ![9] = sidedata_offset, ![10] = sidedata_length]
             new == Index2Mixin_pack_entry(entry).data
         IN  [err |-> "", index |-> [x EXCEPT !._extra[rv - x._lgt + 1] = new]]

\* replace_sidedata_info(rev, sidedata_offset, sidedata_length, offset_flags):
\* the exception raised or "", and the index
replace_sidedata_info(x, rv, sidedata_offset, sidedata_length, offset_flags) ==
    IF rv < 0 THEN [err |-> "KeyError", index |-> x]
    ELSE IF _check_index(x, rv) # "" THEN [err |-> _check_index(x, rv), index |-> x]
    ELSE IF rv < x._lgt THEN [err |-> "KeyError", index |-> x]
    ELSE LET entry == [IndexObject2__getitem__(x, rv).item
                          EXCEPT ![1] = offset_flags, ![9] = sidedata_offset,
                                 ![10] = sidedata_length]
             new == Index2Mixin_pack_entry(entry).data
         IN  [err |-> "", index |-> [x EXCEPT !._extra[rv - x._lgt + 1] = new]]

\* the tuples appended to a v2 index: a node, with or without sidedata, the
\* two compression modes different
Tuples2 ==
    {[NewEntry(n, 1, so) EXCEPT ![10] = so, ![11] = COMP_MODE_PLAIN,
                                ![12] = COMP_MODE_DEFAULT] :
        n \in 1..NumNodes, so \in {0, 1}}

\* the sidedata offset, the sidedata length and the offset_flags given to
\* replace_sidedata_info
Replacements == {<<0, 0, offset_type(1, 0)>>, <<2, 2, offset_type(2, 1)>>}

NoReplace ==
    [rev |-> 0, sidedata_offset |-> 0, sidedata_length |-> 0, offset_flags |-> 0,
     err |-> "none", before |-> IndexObject2(<<>>)]

NoIndex2 == [pc |-> "idle", x |-> IndexObject2(<<>>), call |-> NoReplace]

\* index.append(tup)
Index2Append ==
    /\ index2.pc = "open"
    /\ Len(index2.x._extra) < MaxAppended
    /\ \E tup \in Tuples2 :
          index2' = [index2 EXCEPT !.x = IndexObject2_append(index2.x, tup),
                                   !.call = NoReplace]
    /\ UNCHANGED notX

\* index.has_node(node): the node map is computed
Index2HasNode ==
    /\ index2.pc = "open"
    /\ ~index2.x.has_nodemap
    /\ index2' = [index2 EXCEPT
                     !.x = [index2.x EXCEPT
                               !.has_nodemap = TRUE,
                               !._nodemap = fillnodemap2(index2.x, __len__(index2.x))],
                     !.call = NoReplace]
    /\ UNCHANGED notX

\* index.replace_sidedata_info(rev, sidedata_offset, sidedata_length, offset_flags)
Index2Replace ==
    /\ index2.pc = "open"
    /\ \E rv \in -2..(MaxRevs + MaxAppended), new \in Replacements :
          LET r == replace_sidedata_info(index2.x, rv, new[1], new[2], new[3])
          IN  index2' = [index2 EXCEPT
                            !.x = r.index,
                            !.call = [rev |-> rv, sidedata_offset |-> new[1],
                                      sidedata_length |-> new[2],
                                      offset_flags |-> new[3],
                                      err |-> r.err, before |-> index2.x]]
    /\ UNCHANGED notX

Index2Next ==
    \/ Index2Append
    \/ Index2HasNode
    \/ Index2Replace

(***************************************************************************)
(* The specifications.  Each part runs with the others idle.               *)
(***************************************************************************)
UpgradeInit ==
    /\ pc = "start"
    /\ failedAt = "none"
    /\ locks = {}
    /\ store \in SourceStores
    /\ requires = SourceRequirements
    /\ tmp = NoTmp
    /\ bak = NoBackup
    /\ orig = [store |-> store, requires |-> requires]
    /\ op \in [actions : SUBSET Optimisations, revlogs : SUBSET UPGRADE_ALL_REVLOGS]
    /\ todo = <<>>
    /\ trace = <<>>
    \* the docket and the index are idle
    /\ docket = NoDocket
    /\ disk = NoFile
    /\ backups = 0
    /\ result = "None"
    /\ diskpending = FALSE
    /\ lastfinal = NoFinal
    /\ lowered = FALSE
    /\ monotone = "vacuous"
    /\ lastwrite = NoWrite
    /\ index = NoIndex
    /\ last = NoCall
    /\ codec = NoCodec
    /\ scan = NoScan
    /\ wide = NoHeader
    /\ check = NoCheck
    /\ cloneargs = NoReuse
    /\ dirent = NoEntry
    /\ registry = NoRegistry
    /\ walked = NoWalked
    /\ index2 = NoIndex2

ValidateInit ==
    /\ check \in Checks
    /\ pc = "call"
    /\ failedAt = "none"
    /\ locks = {}
    /\ store \in SourceStores
    /\ requires = SourceRequirements
    /\ tmp = NoTmp
    /\ bak = NoBackup
    /\ orig = [store |-> store, requires |-> requires]
    /\ op = [actions |-> {}, revlogs |-> {}]
    /\ todo = <<>>
    /\ trace = <<>>
    \* the docket and the index are idle
    /\ docket = NoDocket
    /\ disk = NoFile
    /\ backups = 0
    /\ result = "None"
    /\ diskpending = FALSE
    /\ lastfinal = NoFinal
    /\ lowered = FALSE
    /\ monotone = "vacuous"
    /\ lastwrite = NoWrite
    /\ index = NoIndex
    /\ last = NoCall
    /\ codec = NoCodec
    /\ scan = NoScan
    /\ wide = NoHeader
    /\ cloneargs = NoReuse
    /\ dirent = NoEntry
    /\ registry = NoRegistry
    /\ walked = NoWalked
    /\ index2 = NoIndex2


DocketInit ==
    /\ \E v \in {REVLOGV1, REVLOGV2, CHANGELOGV2} : docket = default_docket(v)
    /\ disk = NoFile
    /\ backups = 0
    /\ result = "None"
    /\ diskpending = FALSE
    /\ lastfinal = NoFinal
    /\ lowered = FALSE
    /\ monotone = "vacuous"
    /\ lastwrite = NoWrite
    \* the upgrade and the index are idle
    /\ pc = "idle"
    /\ failedAt = "none"
    /\ locks = {}
    /\ store = NoDir
    /\ requires = {}
    /\ tmp = NoTmp
    /\ bak = NoBackup
    /\ orig = [store |-> NoDir, requires |-> {}]
    /\ op = [actions |-> {}, revlogs |-> {}]
    /\ todo = <<>>
    /\ trace = <<>>
    /\ index = NoIndex
    /\ last = NoCall
    /\ codec = NoCodec
    /\ scan = NoScan
    /\ wide = NoHeader
    /\ check = NoCheck
    /\ cloneargs = NoReuse
    /\ dirent = NoEntry
    /\ registry = NoRegistry
    /\ walked = NoWalked
    /\ index2 = NoIndex2

\* parse_index2(data, inline) on the index file of a revlog
IndexInit ==
    /\ \E k \in 0..MaxDisk, inline \in BOOLEAN :
          index = IF inline THEN InlinedIndexObject(DiskData(k, TRUE))
                  ELSE IndexObject(DiskData(k, FALSE))
    /\ last = NoCall
    \* the upgrade and the docket are idle
    /\ pc = "idle"
    /\ failedAt = "none"
    /\ locks = {}
    /\ store = NoDir
    /\ requires = {}
    /\ tmp = NoTmp
    /\ bak = NoBackup
    /\ orig = [store |-> NoDir, requires |-> {}]
    /\ op = [actions |-> {}, revlogs |-> {}]
    /\ todo = <<>>
    /\ trace = <<>>
    /\ docket = NoDocket
    /\ disk = NoFile
    /\ backups = 0
    /\ result = "None"
    /\ diskpending = FALSE
    /\ lastfinal = NoFinal
    /\ lowered = FALSE
    /\ monotone = "vacuous"
    /\ lastwrite = NoWrite
    /\ codec = NoCodec
    /\ scan = NoScan
    /\ wide = NoHeader
    /\ check = NoCheck
    /\ cloneargs = NoReuse
    /\ dirent = NoEntry
    /\ registry = NoRegistry
    /\ walked = NoWalked
    /\ index2 = NoIndex2

CodecInit ==
    /\ \E format \in {"v1", "v2"}, entry \in CodecEntries :
          codec = [NoCodec EXCEPT !.pc = "entry", !.format = format, !.entry = entry]
    \* the upgrade, the docket and the index are idle
    /\ pc = "idle"
    /\ failedAt = "none"
    /\ locks = {}
    /\ store = NoDir
    /\ requires = {}
    /\ tmp = NoTmp
    /\ bak = NoBackup
    /\ orig = [store |-> NoDir, requires |-> {}]
    /\ op = [actions |-> {}, revlogs |-> {}]
    /\ todo = <<>>
    /\ trace = <<>>
    /\ docket = NoDocket
    /\ disk = NoFile
    /\ backups = 0
    /\ result = "None"
    /\ diskpending = FALSE
    /\ lastfinal = NoFinal
    /\ lowered = FALSE
    /\ monotone = "vacuous"
    /\ lastwrite = NoWrite
    /\ index = NoIndex
    /\ last = NoCall
    /\ scan = NoScan
    /\ wide = NoHeader
    /\ check = NoCheck
    /\ cloneargs = NoReuse
    /\ dirent = NoEntry
    /\ registry = NoRegistry
    /\ walked = NoWalked
    /\ index2 = NoIndex2

ScanInit ==
    /\ \E version \in {1, 2} :
          \E cs \in ChunkSeqs(version) :
              scan = [version |-> version, chunks |-> cs,
                      data |-> ScanData(version, cs), result |-> NoResult]
    \* the other parts are idle
    /\ codec = NoCodec
    /\ pc = "idle"
    /\ failedAt = "none"
    /\ locks = {}
    /\ store = NoDir
    /\ requires = {}
    /\ tmp = NoTmp
    /\ bak = NoBackup
    /\ orig = [store |-> NoDir, requires |-> {}]
    /\ op = [actions |-> {}, revlogs |-> {}]
    /\ todo = <<>>
    /\ trace = <<>>
    /\ docket = NoDocket
    /\ disk = NoFile
    /\ backups = 0
    /\ result = "None"
    /\ diskpending = FALSE
    /\ lastfinal = NoFinal
    /\ lowered = FALSE
    /\ monotone = "vacuous"
    /\ lastwrite = NoWrite
    /\ index = NoIndex
    /\ last = NoCall
    /\ wide = NoHeader
    /\ check = NoCheck
    /\ cloneargs = NoReuse
    /\ dirent = NoEntry
    /\ registry = NoRegistry
    /\ walked = NoWalked
    /\ index2 = NoIndex2

FilterInit ==
    /\ \E path \in EntryNames, mode \in EntryModes :
          dirent = [pc |-> "listed", path |-> path, mode |-> mode]
    \* the other parts are idle
    /\ codec = NoCodec
    /\ scan = NoScan
    /\ pc = "idle"
    /\ failedAt = "none"
    /\ locks = {}
    /\ store = NoDir
    /\ requires = {}
    /\ tmp = NoTmp
    /\ bak = NoBackup
    /\ orig = [store |-> NoDir, requires |-> {}]
    /\ op = [actions |-> {}, revlogs |-> {}]
    /\ todo = <<>>
    /\ trace = <<>>
    /\ docket = NoDocket
    /\ disk = NoFile
    /\ backups = 0
    /\ result = "None"
    /\ diskpending = FALSE
    /\ lastfinal = NoFinal
    /\ lowered = FALSE
    /\ monotone = "vacuous"
    /\ lastwrite = NoWrite
    /\ index = NoIndex
    /\ last = NoCall
    /\ wide = NoHeader
    /\ check = NoCheck
    /\ cloneargs = NoReuse
    /\ registry = NoRegistry
    /\ walked = NoWalked
    /\ index2 = NoIndex2

HeaderInit ==
    /\ \E d \in WideDockets :
          /\ wide_le(d._initial_index_end, d._pending_index_end)
          /\ wide_le(d._initial_data_end, d._pending_data_end)
          /\ wide = [NoHeader EXCEPT !.pc = "docket", !.docket = d]
    \* the other parts are idle
    /\ codec = NoCodec
    /\ scan = NoScan
    /\ pc = "idle"
    /\ failedAt = "none"
    /\ locks = {}
    /\ store = NoDir
    /\ requires = {}
    /\ tmp = NoTmp
    /\ bak = NoBackup
    /\ orig = [store |-> NoDir, requires |-> {}]
    /\ op = [actions |-> {}, revlogs |-> {}]
    /\ todo = <<>>
    /\ trace = <<>>
    /\ docket = NoDocket
    /\ disk = NoFile
    /\ backups = 0
    /\ result = "None"
    /\ diskpending = FALSE
    /\ lastfinal = NoFinal
    /\ lowered = FALSE
    /\ monotone = "vacuous"
    /\ lastwrite = NoWrite
    /\ index = NoIndex
    /\ last = NoCall
    /\ check = NoCheck
    /\ cloneargs = NoReuse
    /\ dirent = NoEntry
    /\ registry = NoRegistry
    /\ walked = NoWalked
    /\ index2 = NoIndex2

UpgradeSpec == UpgradeInit /\ [][UpgradeNext]_vars

ValidateSpec == ValidateInit /\ [][ValidateNext]_vars

\* upgraderepo runs in one thread, from its call to its return or to the
\* exception that leaves it: a step that can be taken is taken
ValidateLiveSpec == ValidateSpec /\ WF_vars(ValidateNext)

DocketSpec == DocketInit /\ [][DocketNext]_vars

IndexSpec == IndexInit /\ [][IndexNext]_vars

CodecSpec == CodecInit /\ [][CodecNext]_vars

ScanSpec == ScanInit /\ [][ScanNext]_vars

FilterSpec == FilterInit /\ [][FilterNext]_vars

FlagInit ==
    /\ registry = [pc |-> "loaded", flagprocessors |-> flagprocessors_loaded,
                   first |-> flagprocessors_loaded, called |-> FALSE,
                   registration |-> NoRegistration]
    \* the other parts are idle
    /\ codec = NoCodec
    /\ scan = NoScan
    /\ pc = "idle"
    /\ failedAt = "none"
    /\ locks = {}
    /\ store = NoDir
    /\ requires = {}
    /\ tmp = NoTmp
    /\ bak = NoBackup
    /\ orig = [store |-> NoDir, requires |-> {}]
    /\ op = [actions |-> {}, revlogs |-> {}]
    /\ todo = <<>>
    /\ trace = <<>>
    /\ docket = NoDocket
    /\ disk = NoFile
    /\ backups = 0
    /\ result = "None"
    /\ diskpending = FALSE
    /\ lastfinal = NoFinal
    /\ lowered = FALSE
    /\ monotone = "vacuous"
    /\ lastwrite = NoWrite
    /\ index = NoIndex
    /\ last = NoCall
    /\ wide = NoHeader
    /\ check = NoCheck
    /\ cloneargs = NoReuse
    /\ dirent = NoEntry
    /\ walked = NoWalked
    /\ index2 = NoIndex2

FlagSpec == FlagInit /\ [][FlagNext]_vars

ClassifyInit ==
    /\ \E unencoded \in WalkedPaths, revlogs \in SUBSET UPGRADE_ALL_REVLOGS :
          walked = [pc |-> "listed", unencoded |-> unencoded, revlogs |-> revlogs,
                    oldrl |-> NoRevlog]
    \* the other parts are idle
    /\ codec = NoCodec
    /\ scan = NoScan
    /\ pc = "idle"
    /\ failedAt = "none"
    /\ locks = {}
    /\ store = NoDir
    /\ requires = {}
    /\ tmp = NoTmp
    /\ bak = NoBackup
    /\ orig = [store |-> NoDir, requires |-> {}]
    /\ op = [actions |-> {}, revlogs |-> {}]
    /\ todo = <<>>
    /\ trace = <<>>
    /\ docket = NoDocket
    /\ disk = NoFile
    /\ backups = 0
    /\ result = "None"
    /\ diskpending = FALSE
    /\ lastfinal = NoFinal
    /\ lowered = FALSE
    /\ monotone = "vacuous"
    /\ lastwrite = NoWrite
    /\ index = NoIndex
    /\ last = NoCall
    /\ wide = NoHeader
    /\ check = NoCheck
    /\ cloneargs = NoReuse
    /\ dirent = NoEntry
    /\ registry = NoRegistry
    /\ index2 = NoIndex2

ClassifySpec == ClassifyInit /\ [][ClassifyNext]_vars

Index2Init ==
    /\ \E k \in 0..MaxRevs :
          index2 = [pc |-> "open", x |-> IndexObject2(DiskData2(k)), call |-> NoReplace]
    \* the other parts are idle
    /\ codec = NoCodec
    /\ scan = NoScan
    /\ pc = "idle"
    /\ failedAt = "none"
    /\ locks = {}
    /\ store = NoDir
    /\ requires = {}
    /\ tmp = NoTmp
    /\ bak = NoBackup
    /\ orig = [store |-> NoDir, requires |-> {}]
    /\ op = [actions |-> {}, revlogs |-> {}]
    /\ todo = <<>>
    /\ trace = <<>>
    /\ docket = NoDocket
    /\ disk = NoFile
    /\ backups = 0
    /\ result = "None"
    /\ diskpending = FALSE
    /\ lastfinal = NoFinal
    /\ lowered = FALSE
    /\ monotone = "vacuous"
    /\ lastwrite = NoWrite
    /\ index = NoIndex
    /\ last = NoCall
    /\ wide = NoHeader
    /\ check = NoCheck
    /\ cloneargs = NoReuse
    /\ dirent = NoEntry
    /\ registry = NoRegistry
    /\ walked = NoWalked

Index2Spec == Index2Init /\ [][Index2Next]_vars

HeaderSpec == HeaderInit /\ [][HeaderNext]_vars

(***************************************************************************)
(* Properties of the upgrade.                                              *)
(***************************************************************************)
\* two directories are the same directory with the same files; the lock
\* file, which comes and goes with the store lock, is not compared
SameDir(a, b) ==
    /\ a.id = b.id
    /\ \A f \in StoreFiles \ {"lock"} : a.files[f] = b.files[f]

\* revlog i reads the same in directories a and b: as many revisions, and
\* the same node and full text for each
SameRevlog(a, b, i) ==
    /\ rllen(rlidx(a, i)) = rllen(rlidx(b, i))
    /\ \A r \in 0..(rllen(rlidx(a, i)) - 1) :
          /\ r < rllen(rlidx(b, i))
          /\ rlnode(rlidx(a, i), r) = rlnode(rlidx(b, i), r)
          /\ revision(rlidx(a, i), rldat(a, i), r) = revision(rlidx(b, i), rldat(b, i), r)
          /\ revision(rlidx(a, i), rldat(a, i), r) # Corrupt

\* d is the complete new store: the directory made in the temporary
\* repository, with every revlog and every other copied file of the source
FullyNew(d) ==
    /\ d.id = "new"
    /\ \A i \in IndexFiles : SameRevlog(orig.store, d, i)
    /\ \A f \in toplevel :
          _filterstorefile(pathname(f), "S_IFREG") => d.files[f] = orig.store.files[f]

BeforeFirstRename ==
    {"wlocked", "locked", "tmp", "engine", "clone", "copyfiles", "mkbackup", "copyrequires",
     "lockout"}

\* C1, as claimed: after a failure at any single point the source store is
\* identical to its state before the upgrade or fully replaced by the new
\* store; never missing, never a mix.
C1_AtomicAsClaimed ==
    failedAt # "none" => (SameDir(store, orig.store) \/ FullyNew(store))

\* C1, amended: after a failure at any single point the source store is
\* identical to its state before the upgrade, or fully replaced by the new
\* store, or, after a failure of the second rename and only then, absent with
\* the complete original store in the backup directory; never a mix.
C1_AtomicOrInBackup ==
    failedAt # "none" =>
        \/ failedAt # "rename2" /\ SameDir(store, orig.store)
        \/ failedAt # "rename2" /\ FullyNew(store)
        \/ /\ failedAt = "rename2"
           /\ store = NoDir
           /\ bak.exists
           /\ SameDir(bak.store, orig.store)

C1_Witness ==
    /\ pc = "done"
    /\ failedAt = "rename2"
    /\ store = NoDir
    /\ rllen(rlidx(bak.store, "data/f.i")) = MaxRevs

C3_ContentPreserved ==
    (pc = "done" /\ failedAt = "none") =>
        /\ store.id = "new"
        /\ \A i \in IndexFiles : SameRevlog(orig.store, store, i)

\* a completed upgrade that cloned the changelog and blindly copied a split
\* filelog
C3_Witness ==
    /\ pc = "done"
    /\ failedAt = "none"
    /\ UPGRADE_CHANGELOG \in op.revlogs
    /\ UPGRADE_FILELOGS \notin op.revlogs
    /\ rllen(rlidx(store, "00changelog.i")) = MaxRevs
    /\ rllen(rlidx(store, "data/f.i")) = MaxRevs
    /\ store.files["data/f.d"].exists
    /\ orig.store.files["00changelog.d"].exists
    /\ ~store.files["00changelog.d"].exists

IsPrefix(s, t) == Len(s) <= Len(t) /\ SubSeq(t, 1, Len(s)) = s

InTrace(e) == \E k \in 1..Len(trace) : trace[k] = e

\* C4: 'upgradeinprogress' is written before the first rename and stays
\* until the final requirements are written; these are written only after
\* both renames, and the store is swapped once.  So whenever the store is
\* absent or replaced and the final requirements are not written, the
\* requires file holds 'upgradeinprogress'.
C4_LockOutOrdering ==
    /\ IsPrefix(trace, <<"lockout", "rename1", "rename2", "finalreq">>)
    /\ (InTrace("lockout") /\ ~InTrace("finalreq")) => "upgradeinprogress" \in requires
    /\ ~InTrace("lockout") => requires = orig.requires
    /\ InTrace("finalreq") => requires = NewRequirements
    /\ (store = NoDir \/ store.id = "new") <=> InTrace("rename1")
    /\ store.id = "new" <=> InTrace("rename2")
    /\ ((store = NoDir \/ store.id = "new") /\ ~InTrace("finalreq"))
          => "upgradeinprogress" \in requires
    /\ (pc = "done" /\ failedAt = "none")
          => trace = <<"lockout", "rename1", "rename2", "finalreq">>

\* the store is already replaced and the final requirements are not written
C4_Witness ==
    /\ pc = "finalreq"
    /\ store.id = "new"
    /\ "upgradeinprogress" \in requires
    /\ bak.store.id = "old"

AfterFirstRename == {"rename2", "finalreq", "unlink"}

\* C5: when the upgrade fails after the source store was renamed into the
\* backup directory, then after the cleanup of upgraderepo the backup
\* directory still holds the complete original store and the copy of the
\* original requires file; the cleanup removed the temporary directory only.
C5_BackupKept ==
    (failedAt \in AfterFirstRename /\ pc \in {"release", "done"}) =>
        /\ bak.exists
        /\ SameDir(bak.store, orig.store)
        /\ bak.hasrequires
        /\ bak.requires = orig.requires
        /\ tmp = NoTmp

C5_Witness ==
    /\ pc = "done"
    /\ failedAt = "finalreq"
    /\ bak.exists
    /\ bak.store.files["data/f.d"].exists
    /\ store.id = "new"

(***************************************************************************)
(* Properties of the docket.                                               *)
(***************************************************************************)
\* the ends a reader gets from the bytes of the file
ReaderEnds(use_pending) ==
    LET p == parse_docket(disk.bytes, use_pending)
    IN  [err |-> p.err, index_end |-> p.docket._index_end,
         data_end |-> p.docket._data_end]

\* C6: when the file was last written with pending=True after some
\* write(pending=False), a reader parsing it without use_pending gets the
\* index and data ends of that last committed write, and, right after the
\* write, a reader parsing with use_pending gets the ends in memory.
C6_PendingVisibility ==
    (disk.exists /\ diskpending /\ lastfinal.kind # "none") =>
        /\ ReaderEnds(FALSE).err = ""
        /\ ReaderEnds(FALSE).index_end = lastfinal.index_end
        /\ ReaderEnds(FALSE).data_end = lastfinal.data_end
        /\ result = "True" =>
              /\ ReaderEnds(TRUE).err = ""
              /\ ReaderEnds(TRUE).index_end = docket._index_end
              /\ ReaderEnds(TRUE).data_end = docket._data_end

\* the header of the docket on disk
DiskHeader == S_HEADER_unpack(SubSeq(disk.bytes, 1, S_HEADER_size), S_HEADER)

\* C7: every docket that write() put on disk has its official index end at
\* most its pending index end and its official data end at most its pending
\* data end.
C7_EndInvariant ==
    disk.exists =>
        /\ DiskHeader[4] <= DiskHeader[5]
        /\ DiskHeader[6] <= DiskHeader[7]

\* C8 as stated: of two successive write(pending=False) calls that are not
\* stripping, the second never records an official index end or an official
\* data end below the one the first recorded.
C8_Monotone == monotone # "broken"

\* C8, amended: a write(pending=False) records the ends in memory as the
\* official ends, and as long as no end in memory was lowered, of two
\* successive such writes that are not stripping the second records no
\* official end below the one the first recorded.
C8_MonotoneUnlessLowered ==
    /\ ~lowered => monotone # "broken"
    /\ (result = "True" /\ ~diskpending) =>
          /\ lastfinal.index_end = docket._index_end
          /\ lastfinal.data_end = docket._data_end

\* two successive committed dockets, the second with larger ends
C8_Witness ==
    /\ ~lowered
    /\ monotone = "held"
    /\ result = "True"
    /\ ~diskpending
    /\ lastfinal = [index_end |-> MaxEnd, data_end |-> MaxEnd, kind |-> "plain"]

(***************************************************************************)
(* Properties of the index.                                                *)
(***************************************************************************)
\* the integers given to index[r]
Revs == -2..(MaxLen + 1)

\* C9: no two revisions of the index have the same node, and an append
\* whose node some revision already has fails and leaves the entries of the
\* index as they were.
C9_NodeUniqueness ==
    /\ \A r1, r2 \in 1..__len__(index) :
          r1 # r2 => Entries(index)[r1][8] # Entries(index)[r2][8]
    /\ (last.op = "append" /\ last.dup) =>
          /\ last.ret # "ok"
          /\ Entries(index) = last.before

\* C10: index[r] is an entry exactly for r in 0..len-1, the null item for
\* r = -1 and IndexError for any other integer; an append gives its entry
\* the revision number len and leaves the other entries alone; a strip at i
\* with 0 <= i < len leaves exactly the revisions 0..i-1, their entries
\* unchanged.
C10_Density ==
    /\ \A r \in Revs :
          IF r = -1 THEN __getitem__(index, r) = [err |-> "", item |-> null_item]
          ELSE IF 0 <= r /\ r < __len__(index)
          THEN __getitem__(index, r).err = "" /\ Len(__getitem__(index, r).item) = 12
          ELSE __getitem__(index, r).err = "IndexError"
    /\ (last.op = "append" /\ last.ret = "ok") =>
          /\ __len__(index) = Len(last.before) + 1
          /\ SubSeq(Entries(index), 1, Len(last.before)) = last.before
          /\ Entries(index)[last.i + 1][8] = last.tup[8]
    /\ (last.op = "strip" /\ 0 <= last.i /\ last.i < Len(last.before)) =>
          Entries(index) = SubSeq(last.before, 1, last.i)

\* C11: the null node resolves to revision -1 (rev and get_rev), index[-1]
\* is the null item, and no revision in 0..len-1 carries the null node.
C11_NullNode ==
    /\ rev(index, nullid) = [err |-> "", rev |-> nullrev]
    /\ get_rev(index, nullid) = nullrev
    /\ __getitem__(index, -1) = [err |-> "", item |-> null_item]
    /\ \A r \in 1..__len__(index) : Entries(index)[r][8] # nullid

\* C12: after a strip at i, no node of a removed revision is in the node map
\* (has_node is false, get_rev gives None) and every remaining revision
\* r < i still has rev(node(r)) = r.
C12_StripNodes ==
    (last.op = "strip" /\ last.ret = "ok") =>
        /\ \A r \in (last.i + 1)..Len(last.before) :
              /\ ~has_node(index, last.before[r][8])
              /\ get_rev(index, last.before[r][8]) = Missing
        /\ \A r \in 1..last.i :
              rev(index, last.before[r][8]) = [err |-> "", rev |-> r - 1]

(***************************************************************************)
(* Properties of the entry formats.                                        *)
(***************************************************************************)
\* C13 as stated: in both formats every entry is packed, and unpacking what
\* was packed gives the entry back in all of its 12 fields.
C13_RoundTrip ==
    /\ codec.pc \in {"packed", "unpacked"} => codec.packed.err = ""
    /\ codec.pc = "unpacked" => codec.unpacked = codec.entry

\* the fields the v1 format has no room for, as _unpack_entry fills them in
V1Defaults == <<0, 0, COMP_MODE_INLINE, COMP_MODE_INLINE>>

\* C13, amended: in the v2 format every entry is packed and unpacked back in
\* all of its 12 fields, the data compression mode in the low 2 bits of the
\* last byte and the sidedata compression mode in the next 2; in the v1
\* format an entry is packed exactly when its sidedata offset and length are
\* 0, its 8 first fields are unpacked back, and the 4 others are unpacked as
\* 0, 0 and the inline compression mode, whatever they were.
C13_RoundTripOfFormat ==
    /\ (codec.pc \in {"packed", "unpacked"} /\ codec.format = "v2") =>
          /\ codec.packed.err = ""
          /\ codec.packed.data[11] % 4 = codec.entry[11]
          /\ (codec.packed.data[11] \div 4) % 4 = codec.entry[12]
    /\ (codec.pc \in {"packed", "unpacked"} /\ codec.format = "v1") =>
          (codec.packed.err = "") = (codec.entry[9] = 0 /\ codec.entry[10] = 0)
    /\ (codec.pc = "unpacked" /\ codec.format = "v2") => codec.unpacked = codec.entry
    /\ (codec.pc = "unpacked" /\ codec.format = "v1") =>
          codec.unpacked = SubSeq(codec.entry, 1, 8) \o V1Defaults

\* a v2 entry with sidedata and two different compression modes went
\* through both conversions
C13_Witness ==
    /\ codec.pc = "unpacked"
    /\ codec.format = "v2"
    /\ codec.entry[9] = 1
    /\ codec.entry[11] = COMP_MODE_DEFAULT
    /\ codec.entry[12] = COMP_MODE_INLINE
    /\ codec.unpacked = codec.entry

\* the entry of revision r as the index holds it, on disk or in memory
Stored(x, r) ==
    _unpack_entry(IF r >= x._lgt THEN x._extra[r - x._lgt + 1]
                  ELSE SubSeq(x._data, _calculate_index(x, r) + 1,
                              _calculate_index(x, r) + entry_size))

\* the entry with the offset part of offset_flags cleared
Masked(e) == <<gettype(e[1])>> \o Tail(e)

\* C14 as stated: index[0] has the offset part 0 and the stored flag bits,
\* its other fields as stored, wherever revision 0 is held; every other
\* revision is returned as stored.
C14_Rev0Masked ==
    \A r \in 0..(__len__(index) - 1) :
        __getitem__(index, r).item =
            IF r = 0 THEN Masked(Stored(index, r)) ELSE Stored(index, r)

\* C14, amended: index[0] has the offset part 0 and the stored flag bits
\* when revision 0 is one of the entries loaded from disk; a revision 0
\* appended in memory, and every revision above 0, is returned as stored.
C14_Rev0MaskedOnDisk ==
    \A r \in 0..(__len__(index) - 1) :
        __getitem__(index, r).item =
            IF r = 0 /\ index._lgt > 0 THEN Masked(Stored(index, r))
            ELSE Stored(index, r)

\* revision 0 is on disk with header bits in its offset and is returned
\* without them, next to an appended revision returned with its offset
C14_Witness ==
    /\ index._lgt >= 1
    /\ __len__(index) > index._lgt
    /\ Stored(index, 0)[1] = offset_type(1, 1)
    /\ __getitem__(index, 0).item[1] = 1
    /\ __getitem__(index, index._lgt).item[1] = offset_type(1, 0)

(***************************************************************************)
(* Properties of the inline scan.                                          *)
(***************************************************************************)
\* the walk of an inline byte string: from off, each entry that fits is at
\* the offset reached, and the next offset is entry size + the lengths the
\* entry declares further; the last element is where the walk stops
RECURSIVE Walk(_, _, _, _)
Walk(data, version, off, fuel) ==
    LET esize == IF version = 1 THEN entry_size ELSE Index2Mixin_entry_size
    IN  IF fuel = 0 \/ off < 0 \/ off + esize > Len(data) THEN <<off>>
        ELSE <<off>> \o
             Walk(data, version,
                  off + esize + data[off + big_int_size + 1]
                      + (IF version = 1 THEN 0
                         ELSE data[off + sidedata_length_pos + 1]),
                  fuel - 1)

\* every entry declares the number of cells that follow it
WellFormed(cs) ==
    \A k \in 1..Len(cs) : cs[k].s >= 0 /\ cs[k].sl >= 0 /\ cs[k].s + cs[k].sl = cs[k].p

\* no entry the walk comes to declares a negative length
NonNegative(data, version) ==
    LET w == Walk(data, version, 0, Len(data) + 1)
    IN  \A k \in 1..(Len(w) - 1) :
            /\ data[w[k] + big_int_size + 1] >= 0
            /\ version = 2 => data[w[k] + sidedata_length_pos + 1] >= 0

\* the scan returned what the walk gives
ScanIsWalk ==
    LET r == scan.result
        w == Walk(scan.data, scan.version, 0, Len(scan.data) + 1)
    IN  /\ r.err \in {"", "ValueError"}
        /\ r.err = "ValueError" <=> w[Len(w)] # Len(scan.data)
        /\ r.err = "" => r.offsets = SubSeq(w, 1, Len(w) - 1)
        /\ r.err = "" /\ WellFormed(scan.chunks) => Len(r.offsets) = Len(scan.chunks)
        /\ WellFormed(scan.chunks) => r.err = ""

\* C15: the scan of an inline byte string yields the offsets of the walk
\* (offset 0, then each offset + entry size + the declared lengths), as many
\* as there are entries, and raises the corruption error exactly when the
\* walk does not end at the length of the string.
C15_InlineScan ==
    scan.result # NoResult => ScanIsWalk

\* the same for the byte strings in which no length the walk reads is negative
C15_InlineScanNonNegative ==
    scan.result # NoResult /\ NonNegative(scan.data, scan.version) => ScanIsWalk

(***************************************************************************)
(* Properties of the docket header.                                        *)
(***************************************************************************)
\* the four ends _serialize was given to record
GivenEnds ==
    <<official_index_end(wide.docket, wide.pending), wide.docket._index_end,
      official_data_end(wide.docket, wide.pending), wide.docket._data_end>>

\* the four ends of the docket parse_docket built
ReadEnds ==
    <<wide.read.docket._initial_index_end, wide.read.docket._pending_index_end,
      wide.read.docket._initial_data_end, wide.read.docket._pending_data_end>>

\* C16: whatever the four ends are, from 0 to 2^64 - 1, serialising the
\* docket succeeds and parsing the bytes gives the four ends back.
C16_EightByteEnds ==
    /\ wide.pc = "written" => wide.written.err = ""
    /\ wide.pc = "read" => wide.read.err = "" /\ ReadEnds = GivenEnds

\* the same for ends below 2^32, and struct.error for any end from 2^32 on
C16_FourByteEnds ==
    /\ wide.pc = "written" =>
          (wide.written.err = "" <=> \A k \in 1..4 : wide_fits(GivenEnds[k], 4))
    /\ wide.pc = "written" => wide.written.err \in {"", "struct.error"}
    /\ wide.pc = "read" => wide.read.err = "" /\ ReadEnds = GivenEnds

(***************************************************************************)
(* Properties of the validation of an upgrade.                             *)
(***************************************************************************)
\* one of the conditions under which the upgrade must be refused holds of
\* the call
Refused ==
    \/ check.requiredsourcerequirements \ orig.requires # {}
    \/ check.blocksourcerequirements \cap orig.requires # {}
    \/ \E r \in orig.requires \ check.newreqs : r \notin check.supportremovedrequirements
    \/ \E r \in check.newreqs \ orig.requires : r \notin check.allowednewrequirements
    \/ \E r \in check.newreqs : r \notin check.supporteddestrequirements
    \/ \E o \in check.optimize : legacy_opts_map(o) \notin check.findoptimizations

\* no lock is held, no temporary or backup directory exists and the
\* repository is as it was
Untouched ==
    /\ locks = {}
    /\ tmp = NoTmp
    /\ bak = NoBackup
    /\ store = orig.store
    /\ requires = orig.requires

\* C17: when a required source requirement is missing, a blocking one is
\* present, a removal is not supported, an addition is not allowed, a
\* requirement of the target is not supported for a destination or an
\* optimisation name is unknown, upgraderepo aborts with an error and has
\* taken no lock, created no directory and modified no file; it stays so.
C17_Validation ==
    /\ pc = "call" => Untouched
    /\ pc # "call" /\ Refused => pc = "aborted" /\ check.abort # "" /\ Untouched
    /\ pc = "aborted" => Refused

\* the call is refused for the last reason checked, the unknown optimisation:
\* the requirements passed every check before it
C17_Witness ==
    /\ pc = "aborted"
    /\ check.abort = "unknown optimization action requested"
    /\ "bogus" \in check.optimize
    /\ Untouched

(***************************************************************************)
(* Properties of the locks of an upgrade.                                  *)
(***************************************************************************)
SourceLocks == {"src.wlock", "src.lock"}

\* C18: on the source the wlock is taken before the store lock; both are
\* taken before the temporary directory exists or anything is changed; both
\* are held during the migration, the swap and the cleanup; both are given
\* back on every way out, after a failure too; the engine takes no step
\* unless the wlock of the source and of the destination are held.
C18_Locking ==
    /\ "src.lock" \in locks => "src.wlock" \in locks
    /\ ~(SourceLocks \subseteq locks) /\ pc # "done" =>
          /\ tmp = NoTmp
          /\ bak = NoBackup
          /\ store = orig.store
          /\ requires = orig.requires
    /\ pc \in {"locked", "tmp", "returned", "finally"} \cup EngineSteps =>
          SourceLocks \subseteq locks
    /\ pc = "release" =>
          IF failedAt = "wlocked" THEN locks = {"src.wlock"}
          ELSE SourceLocks \subseteq locks
    /\ pc = "done" => locks = {}
    /\ pc \in EngineSteps => {"src.wlock", "dst.wlock"} \subseteq locks

\* the upgrade failed during the swap, cleaned up, and holds no lock
C18_Witness ==
    /\ pc = "done"
    /\ failedAt = "rename2"
    /\ InTrace("rename1")
    /\ locks = {}

(***************************************************************************)
(* Properties of the arguments of _clonerevlogs.                           *)
(***************************************************************************)
\* C19: the delta reuse mode is never with 're-delta-all', else same-revs
\* with 're-delta-parent' or 're-delta-multibase', else full-add with
\* 're-delta-fulladd', else always; both parents are forced as delta bases
\* exactly when 're-delta-multibase' is among the optimisations.
C19_DeltaReuse ==
    cloneargs # NoReuse =>
        /\ "re-delta-all" \in op.actions => cloneargs.deltareuse = "never"
        /\ "re-delta-all" \notin op.actions
              /\ op.actions \cap {"re-delta-parent", "re-delta-multibase"} # {}
              => cloneargs.deltareuse = "samerevs"
        /\ op.actions \cap {"re-delta-all", "re-delta-parent", "re-delta-multibase"} = {}
              /\ "re-delta-fulladd" \in op.actions
              => cloneargs.deltareuse = "fulladd"
        /\ op.actions \cap Optimisations = {} => cloneargs.deltareuse = "always"
        /\ cloneargs.forcedeltabothparents <=> "re-delta-multibase" \in op.actions

\* every optimisation was asked for: 're-delta-all' wins, and both parents
\* are forced
C19_Witness ==
    /\ op.actions = Optimisations
    /\ cloneargs.deltareuse = "never"
    /\ cloneargs.forcedeltabothparents
    /\ pc = "clone"

(***************************************************************************)
(* Properties of the copy of the other store files.                        *)
(***************************************************************************)
\* C20: an entry of the store is copied to the destination exactly when
\* its name does not end in .i, .d, .n or .nd, does not begin with undo, is
\* neither lock nor fncache, and the entry is a regular file.
C20_StoreFilesCopied ==
    LET n == Len(dirent.path)
        tail(k) == IF n >= k THEN SubSeq(dirent.path, n - k + 1, n) ELSE <<>>
        copy ==
            /\ tail(2) \notin {<<".", "i">>, <<".", "d">>, <<".", "n">>}
            /\ tail(3) # <<".", "n", "d">>
            /\ ~(n >= 4 /\ SubSeq(dirent.path, 1, 4) = <<"u", "n", "d", "o">>)
            /\ dirent.path \notin {<<"l", "o", "c", "k">>, <<"f", "n", "c", "a", "c", "h", "e">>}
            /\ dirent.mode = "S_IFREG"
    IN  /\ dirent.pc \in {"kept", "copied"} => copy
        /\ dirent.pc = "skipped" => ~copy

\* a regular file whose name begins with undo and goes on is not copied
C20_Witness ==
    dirent = [pc |-> "skipped",
              path |-> <<"u", "n", "d", "o", ".", "p", "h", "a", "s", "e", "r", "o", "o", "t", "s">>,
              mode |-> "S_IFREG"]

(***************************************************************************)
(* Properties of the temporary directory of an upgrade.                    *)
(***************************************************************************)
\* C21: once the temporary directory exists it is removed later, whatever
\* the way out: the return of the engine, a failure while the destination
\* repository is opened, a failure at a step of the engine.
C21_TmpRemoved == tmp.exists ~> ~tmp.exists

\* the destination repository could not be opened: the run is over and the
\* temporary directory is gone
C21_Witness ==
    /\ pc = "done"
    /\ failedAt = "tmp"
    /\ ~tmp.exists

(***************************************************************************)
(* Properties of the registry of flag processors.                          *)
(***************************************************************************)
\* the flags of REVIDX_FLAGS_ORDER
OrderedFlags == {REVIDX_FLAGS_ORDER[k] : k \in DOMAIN REVIDX_FLAGS_ORDER}

\* the flag has no known bit, or is not one of the flags in the order
NotAFlag(flag) ==
    \/ bitand(flag, REVIDX_KNOWN_FLAGS) = 0
    \/ flag \notin OrderedFlags

\* C22: one processor per flag.  After any registration calls each flag of
\* the registry holds the processor of the first call that named it, the
\* censored flag the None it was loaded with; a call on a registered flag
\* raises Abort, a call on a flag with no known bit or outside
\* REVIDX_FLAGS_ORDER raises ProgrammingError, and a call that raised left the
\* registry as it was
C22_OneProcessorPerFlag ==
    LET call == registry.registration
        flagprocessors == registry.flagprocessors
    IN  registry.pc = "loaded" =>
          /\ \A flag \in DOMAIN flagprocessors :
                /\ flag \in DOMAIN registry.first
                /\ flagprocessors[flag] = registry.first[flag]
          /\ flagprocessors[REVIDX_ISCENSORED] = "None"
          /\ registry.called =>
                /\ NotAFlag(call.flag) => call.raised = "ProgrammingError"
                /\ call.flag \in DOMAIN call.before => call.raised = "Abort"
                /\ call.raised # "" => flagprocessors = call.before
                /\ call.raised = "" =>
                      /\ DOMAIN flagprocessors = DOMAIN call.before \cup {call.flag}
                      /\ flagprocessors[call.flag] = call.processor
                      /\ \A flag \in DOMAIN call.before :
                            flagprocessors[flag] = call.before[flag]

\* a second processor was refused on a flag that holds the first one
C22_Witness ==
    /\ registry.pc = "loaded"
    /\ registry.called
    /\ registry.registration.raised = "Abort"
    /\ registry.registration.flag = REVIDX_ELLIPSIS
    /\ registry.registration.processor = "p2"
    /\ registry.flagprocessors[REVIDX_ELLIPSIS] = "p1"

(***************************************************************************)
(* Properties of the write protocol of the docket.                         *)
(***************************************************************************)
\* this step is a call write(pending=..., stripping=...)
WriteCall == lastwrite'.wrote

\* C23: commit promotes the pending ends.  A write(pending=False) that comes
\* right after a write(pending=True) that returned True writes, returns True
\* and records official ends equal to the pending ends equal to the ends in
\* memory, and leaves the docket clean; a write() right after it returns
\* False and changes neither the docket, nor the file, nor the backups
C23_CommitPromotes ==
    [][/\ (/\ lastwrite.wrote /\ lastwrite.pending /\ result = "True"
           /\ WriteCall /\ ~lastwrite'.pending) =>
              /\ docket._dirty
              /\ result' = "True"
              /\ disk'.exists
              /\ S_HEADER_unpack(disk'.bytes, S_HEADER)[4] = docket._index_end
              /\ S_HEADER_unpack(disk'.bytes, S_HEADER)[5] = docket._index_end
              /\ S_HEADER_unpack(disk'.bytes, S_HEADER)[6] = docket._data_end
              /\ S_HEADER_unpack(disk'.bytes, S_HEADER)[7] = docket._data_end
              /\ docket' = [docket EXCEPT !._dirty = FALSE]
       /\ (/\ lastwrite.wrote /\ ~lastwrite.pending /\ result = "True"
           /\ WriteCall) =>
              /\ ~docket._dirty
              /\ result' = "False"
              /\ UNCHANGED <<docket, disk, backups>>]_vars

\* a write(pending=False) promoted an index end of 1 that a write(pending=True)
\* had recorded as pending over an official end of 0
C23_Witness ==
    /\ lastwrite.wrote
    /\ ~lastwrite.pending
    /\ lastwrite.follows = "pending"
    /\ result = "True"
    /\ DiskHeader[4] = 1
    /\ DiskHeader[5] = 1
    /\ ~docket._dirty

\* write() raised: neither True nor False came back
Raised == result' \notin {"True", "False"}

\* the file is replaced by the serialized docket, after the backup
Replaced ==
    /\ backups' = backups + (IF lastwrite'.stripping THEN 0 ELSE 1)
    /\ disk' = [exists |-> TRUE,
                bytes |-> _serialize(docket, lastwrite'.pending).bytes]

\* C24 as stated: write() returns True exactly when the docket was dirty when
\* called; when it returns False the docket, the file and the backups are
\* unchanged; when it writes, one backup is registered, none when stripping,
\* and the file is replaced
C24_WriteProtocol ==
    [][WriteCall =>
          /\ result' = "True" <=> docket._dirty
          /\ result' = "False" => UNCHANGED <<docket, disk, backups>>
          /\ result' = "True" => Replaced]_vars

\* C24 with the calls that raise: write() returns False exactly when the
\* docket was clean, and then nothing changes; on a dirty read-only docket it
\* raises ProgrammingError and nothing changes; on a dirty writable docket it
\* registers one backup, none when stripping, and then either returns True
\* with the file replaced and the docket dirty only if pending, or raises out
\* of _serialize with the backup registered and the file and docket unchanged
C24_WriteProtocolOrRaise ==
    [][WriteCall =>
          /\ result' = "False" <=> ~docket._dirty
          /\ result' = "False" => UNCHANGED <<docket, disk, backups>>
          /\ result' = "ProgrammingError" <=> (docket._dirty /\ docket._read_only)
          /\ result' = "ProgrammingError" => UNCHANGED <<docket, disk, backups>>
          /\ result' = "True" =>
                /\ docket._dirty
                /\ ~docket._read_only
                /\ Replaced
                /\ docket' = [docket EXCEPT !._dirty = lastwrite'.pending]
          /\ (Raised /\ result' # "ProgrammingError") =>
                /\ result' = _serialize(docket, lastwrite'.pending).err
                /\ backups' = backups + (IF lastwrite'.stripping THEN 0 ELSE 1)
                /\ UNCHANGED <<docket, disk>>]_vars

\* a write() that is not stripping replaced the file and registered the one
\* backup of the run
C24_Witness ==
    /\ lastwrite.wrote
    /\ ~lastwrite.stripping
    /\ lastwrite.follows = "none"
    /\ result = "True"
    /\ backups = 1
    /\ disk.exists

(***************************************************************************)
(* Properties of the official ends over the life of one docket object.     *)
(***************************************************************************)
\* C25, for the runs in which no end in memory is ever lowered: as long as
\* the docket object is the one the run started with, the official index end
\* and the official data end of the file are at least the ones recorded by
\* the last write(pending=False) of that object, also after a later
\* write(pending=True)
C25_OfficialEndsKept ==
    (/\ ~lastwrite.reopened
     /\ ~lowered
     /\ disk.exists
     /\ lastfinal.kind # "none") =>
        /\ lastfinal.index_end <= DiskHeader[4]
        /\ lastfinal.data_end <= DiskHeader[6]

\* C26: a docket made by default_docket can be written in every state it
\* reaches: whatever calls of index_filepath(), data_filepath() and of the
\* setters came before, write() on it returns (True when it wrote, False when
\* the docket was clean) and does not raise
C26_FreshWritable ==
    (lastwrite.wrote /\ ~lastwrite.reopened) => result \in {"True", "False"}

(***************************************************************************)
(* Properties of the end of the inline scan.                               *)
(***************************************************************************)
\* C27: on every byte string, v1 or v2, with lengths that are zero or
\* negative too, the scan ends: it returns the count of entries or raises the
\* corruption error, never loops for ever and never raises anything else
C27_ScanTerminates ==
    scan.result # NoResult =>
        /\ scan.result.err # "hang"
        /\ scan.result.err \in {"", "ValueError"}

(***************************************************************************)
(* Properties of the node map as a cache of the index entries.             *)
(***************************************************************************)
\* the node map built from the entries the index holds now
LazyNodeMap == fillnodemap(index, __len__(index))

\* C28: after any appends, strips and clearcaches, a node map that was
\* materialised earlier and maintained since is the map built now from the
\* entries, so that has_node, rev and get_rev answer the same either way; and
\* that map sends the null node to -1, the node of each revision r to r, and
\* holds no other node
C28_NodeMapCoherent ==
    /\ index.has_nodemap => index._nodemap = LazyNodeMap
    /\ LazyNodeMap[nullid] = nullrev
    /\ \A r \in 1..__len__(index) : LazyNodeMap[Entries(index)[r][8]] = r - 1
    /\ \A n \in DOMAIN LazyNodeMap :
          (n # nullid /\ ~HasRevWithNode(index, n)) => LazyNodeMap[n] = Missing

(***************************************************************************)
(* Properties of the classification of revlogs.                            *)
(***************************************************************************)
\* the entry of the revlog filter that stands for a class of revlog
FilterKind(class) ==
    CASE class = "changelog" -> UPGRADE_CHANGELOG
      [] class = "manifestrevlog" -> UPGRADE_MANIFEST
      [] class = "filelog" -> UPGRADE_FILELOGS

\* C29: a store entry that is not a .d file is cloned when the kind of the
\* revlog opened for it is in the revlog filter and blindly copied when it is
\* not, so that the filter is tested with the kind of the revlog opened; a
\* .d entry is neither cloned nor copied
C29_Classification ==
    /\ walked.pc \in {"cloned", "copied"} =>
          /\ ~endswith(walked.unencoded, <<".", "d">>)
          /\ walked.pc = "cloned" <=> FilterKind(walked.oldrl.class) \in walked.revlogs
    /\ walked.pc = "skipped" => endswith(walked.unencoded, <<".", "d">>)

(***************************************************************************)
(* Properties of replace_sidedata_info.                                    *)
(***************************************************************************)
\* the entries of revisions 0..len-1 of a v2 index
Entries2(x) == [r \in 1..__len__(x) |-> IndexObject2__getitem__(x, r - 1).item]

\* C30: replace_sidedata_info raises KeyError for rev < 0 and for a revision
\* loaded from disk, IndexError for rev >= len, and then leaves the index as
\* it was; for an appended revision it returns, and that entry has the
\* offset_flags, sidedata_offset and sidedata_length given and its nine other
\* fields as before, every other entry, len() and the node map being as
\* before
C30_ReplaceSidedataInfo ==
    LET call == index2.call
        before == call.before
        x == index2.x
    IN  call.err # "none" =>
          /\ call.rev < 0 => call.err = "KeyError"
          /\ call.rev >= __len__(before) => call.err = "IndexError"
          /\ (0 <= call.rev /\ call.rev < before._lgt) => call.err = "KeyError"
          /\ call.err # "" => x = before
          /\ (before._lgt <= call.rev /\ call.rev < __len__(before)) =>
                /\ call.err = ""
                /\ __len__(x) = __len__(before)
                /\ x._lgt = before._lgt
                /\ x._data = before._data
                /\ x.has_nodemap = before.has_nodemap
                /\ x._nodemap = before._nodemap
                /\ \A r \in 1..__len__(before) :
                      Entries2(x)[r] =
                          IF r - 1 = call.rev
                          THEN [Entries2(before)[r] EXCEPT
                                   ![1] = call.offset_flags,
                                   ![9] = call.sidedata_offset,
                                   ![10] = call.sidedata_length]
                          ELSE Entries2(before)[r]

\* the second of two revisions, appended after one loaded from disk, got new
\* sidedata information and new flags while the node map was materialised
C30_Witness ==
    /\ index2.call.err = ""
    /\ index2.call.rev = 1
    /\ index2.x._lgt = 1
    /\ index2.x.has_nodemap
    /\ index2.call.sidedata_offset = 2
    /\ Entries2(index2.call.before)[2][9] = 1
    /\ Entries2(index2.x)[2][9] = 2
    /\ Entries2(index2.x)[2][1] = offset_type(2, 1)
    /\ Entries2(index2.x)[2][11] = COMP_MODE_PLAIN
    /\ Entries2(index2.x)[2][12] = COMP_MODE_DEFAULT

====
